---- MODULE Spec2Model ----
(***************************************************************************)
(* A model of pdf-tools (src/pdf_tools): the worker threads of the         *)
(* operation pages (merge, split, compress, encrypt, image export, slide   *)
(* export, word conversion), the click handlers that start them, and the   *)
(* files they write.                                                       *)
(*                                                                         *)
(* The module holds several specifications over one set of variables:      *)
(*   SpecSplit     SplitThread.run page by page (pdf_split.py)             *)
(*   SpecMergeRun  MergeThread.run input by input (pdf_merge.py)           *)
(* A specification leaves the variables of the other parts unchanged.      *)
(***************************************************************************)
EXTENDS Integers, Sequences, FiniteSets, TLC

\* ------------------------------------------------------------------ bounds

\* Largest page count of the source document of a split.
MaxPages == 25
\* Largest value of the pages-per-part spin box explored (the box allows 1..10000).
MaxGroup == 10

\* ------------------------------------------------------------------ helpers

Min(a, b) == IF a < b THEN a ELSE b

CeilDiv(n, k) == (n + k - 1) \div k

RECURSIVE SumLens(_)
SumLens(s) == IF s = <<>> THEN 0 ELSE Len(Head(s)) + SumLens(Tail(s))

\* The pages lo .. hi-1 of a source, in source order (empty when hi <= lo).
PageRange(lo, hi) == [x \in 1..(hi - lo) |-> lo + x - 1]

\* ------------------------------------------------------------------ split

VARIABLES
    sp_pc,            \* position of SplitThread.run
    sp_source,        \* page count of the file at pdf_path
    pages_per_part,   \* SplitThread.pages_per_part
    total,            \* run: total = len(reader.pages)
    start,            \* run: the outer loop variable
    sp_i,             \* run: the inner loop variable i
    part,             \* run: part
    writer,           \* run: pages added to the current PdfWriter
    sp_dir,           \* whether out_dir exists
    split_files,      \* out_dir: file name -> [pages, closed]
    sp_written,       \* history: page lists of the files closed, in write order
    sp_signals        \* signals emitted by the thread, in order

splitVars == <<sp_pc, sp_source, pages_per_part, total, start, sp_i, part,
               writer, sp_dir, split_files, sp_written, sp_signals>>

VARIABLES
    list_widget,      \* PdfMergePage.list_widget: the listed documents, by row
    currentRow,       \* list_widget.currentRow(), -1 when there is none
    output_edit,      \* PdfMergePage.output_edit.text()
    merge_btn,        \* merge_btn.isEnabled()
    open_btn,         \* open_btn.isEnabled()
    progress,         \* progress.isVisible()
    m_dialog,         \* the last message box the merge page has shown
    m_pc,             \* position of MergeThread.run, "none" without a thread
    m_inputs,         \* MergeThread.inputs
    m_output,         \* MergeThread.output
    m_k,              \* run: index of the next input of the for loop
    m_writer,         \* run: pages added to the PdfWriter
    m_written,        \* the document serialized by writer.write(f)
    m_fs,             \* output path -> "absent", "partial" or "full"
    m_signals,        \* signals emitted by the thread, in order
    m_queue           \* events queued for the GUI thread, in order

mergeVars == <<list_widget, currentRow, output_edit, merge_btn, open_btn,
               progress, m_dialog, m_pc, m_inputs, m_output, m_k, m_writer,
               m_written, m_fs, m_signals, m_queue>>

VARIABLES
    j_pages,          \* the pages the user works with in this session
    j_source,         \* page -> the path its thread reads its source from
    j_btn,            \* page -> its start button isEnabled()
    j_progress,       \* page -> its progress bar isVisible()
    j_dialog,         \* the message box on the screen: <<page, text>>, or <<>>
    j_pc,             \* page -> position of its thread's run, 0 without a thread
    j_steps,          \* page -> the statements its thread's run executes
    j_target,         \* page -> the output path of its thread
    j_signals,        \* page -> signals its thread has emitted, in order
    j_queue,          \* events queued for the GUI thread: <<page, event>>
    j_fs,             \* file -> "absent", "old", "partial" or "full"
    j_open,           \* <<page, file>>: files open for writing
    j_outdir          \* whether the folder of the output files exists

jobVars == <<j_pages, j_source, j_btn, j_progress, j_dialog, j_pc, j_steps, j_target, j_signals,
             j_queue, j_fs, j_open, j_outdir>>

VARIABLES
    w_pc,             \* position of a conversion to Word: caller, convert, ..., done
    w_via,            \* the caller: the Word page ("gui") or the command line ("cli")
    w_inp,            \* what the input path is: none, missing, file
    w_exists,         \* whether the output path exists
    w_allow,          \* overwrite box or Yes answer; --overwrite
    w_start,          \* the caller's start: spin value or --start, None when not given
    w_end,            \* the caller's end: spin value or --end, None when not given
    w_count,          \* page count of the source
    w_args,           \* <<start, end>> received by convert_pdf_to_docx
    w_handed,         \* <<start, end>> of the cv.convert call
    w_out,            \* how the call ended: signal, exit code or refusal
    w_dir,            \* whether the folder of the output exists
    w_opens,          \* how many times Converter(...) has returned a converter
    w_closes,         \* how many times cv.close() was called
    w_calls,          \* how many times cv.convert was called
    w_exc,            \* the exception convert_pdf_to_docx is leaving with, "" for none
    w_reports         \* what the caller has reported, in order: signals, stdout, stderr

wordVars == <<w_pc, w_via, w_inp, w_exists, w_allow, w_start, w_end, w_count,
              w_args, w_handed, w_out, w_dir, w_opens, w_closes, w_calls,
              w_exc, w_reports>>

VARIABLES
    im_pc,            \* position of PdfToImageThread.run
    im_mode,          \* self.mode: "pages" or "single"
    im_fmt,           \* self.fmt
    im_dpi,           \* self.dpi
    im_doc,           \* doc: the media boxes <<w, h>> of its pages, in points
    im_dir,           \* whether out_dir exists
    im_mat,           \* mat: <<x scale, y scale>>, each a fraction <<num, den>>
    im_i,             \* i of the for loops over range(doc.page_count)
    im_pix,           \* pix: <<width, height>> of the rendered page, in pixels
    im_out,           \* out: the name of the file being saved
    im_files,         \* the files in out_dir: name -> what was saved
    im_saved,         \* the names saved, in order, each with its page index
    images,           \* images: the sizes <<width, height>> of the page images
    widths,           \* widths
    heights,          \* heights
    max_w,            \* max_w
    total_h,          \* total_h
    canvas,           \* canvas: [size, pasted], pasted the boxes <<img, x, y>> in paste order
    y,                \* y of the paste loop
    im_k,             \* position of the paste loop in images
    im_signals        \* signals emitted, in order

imageVars == <<im_pc, im_mode, im_fmt, im_dpi, im_doc, im_dir, im_mat, im_i,
               im_pix, im_out, im_files, im_saved, images, widths, heights,
               max_w, total_h, canvas, y, im_k, im_signals>>

VARIABLES
    pp_pc,            \* position of PdfToPptThread.run
    pp_doc,           \* doc: for each page the size <<width, height>> of its picture
    pp_dir,           \* whether the folder of the output exists
    slide_w,          \* slide_w
    slide_h,          \* slide_h
    pp_i,             \* i of the loop over range(doc.page_count)
    img_w,            \* img_w
    img_h,            \* img_h
    pp_slides,        \* prs.slides: for each slide the pictures on it
    pp_file,          \* what prs.save has written: the slides, <<>> before
    pp_signals        \* signals emitted, in order

pptVars == <<pp_pc, pp_doc, pp_dir, slide_w, slide_h, pp_i, img_w, img_h,
             pp_slides, pp_file, pp_signals>>

VARIABLES
    c_pc,             \* position of CompressThread.run
    c_run,            \* the number of the run; run r reads c_docs[r]
    c_docs,           \* the documents: the source, then the output of each run
    c_writer,         \* writer: [objects, kids], <<>> before the clone
    c_k,              \* how many pages of writer.pages the loop has visited
    c_signals         \* signals emitted, in order

compressVars == <<c_pc, c_run, c_docs, c_writer, c_k, c_signals>>

VARIABLES
    e_pc,             \* position of EncryptThread.run
    e_source,         \* reader.pages: what each page of the source shows
    e_password,       \* self.password
    e_writer,         \* writer: [pages, user, owner]; no password is <<>>
    e_k,              \* how many pages of reader.pages the loop has added
    e_out,            \* the file written: <<writer>>, <<>> before
    e_signals,        \* signals emitted, in order
    e_tried,          \* the password given when the output was opened
    e_access          \* the pages the opening gave: <<pages>>, <<>> when refused

encryptVars == <<e_pc, e_source, e_password, e_writer, e_k, e_out, e_signals,
                 e_tried, e_access>>

vars == <<splitVars, mergeVars, jobVars, wordVars, imageVars, pptVars, compressVars, encryptVars>>

notSplit == <<mergeVars, jobVars, wordVars, imageVars, pptVars, compressVars, encryptVars>>
notMerge == <<splitVars, jobVars, wordVars, imageVars, pptVars, compressVars, encryptVars>>
notJobs == <<splitVars, mergeVars, wordVars, imageVars, pptVars, compressVars, encryptVars>>
notWord == <<splitVars, mergeVars, jobVars, imageVars, pptVars, compressVars, encryptVars>>
notImage == <<splitVars, mergeVars, jobVars, wordVars, pptVars, compressVars, encryptVars>>
notPpt == <<splitVars, mergeVars, jobVars, wordVars, imageVars, compressVars, encryptVars>>
notCompress == <<splitVars, mergeVars, jobVars, wordVars, imageVars, pptVars, encryptVars>>
notEncrypt == <<splitVars, mergeVars, jobVars, wordVars, imageVars, pptVars, compressVars>>

\* The width of the part number in the file name: f"{part:03d}".
PadWidth == 3

RECURSIVE Digits(_)
\* The decimal digits of n >= 0, most significant first.
Digits(n) == IF n < 10 THEN <<n>> ELSE Append(Digits(n \div 10), n % 10)

RECURSIVE DigitsValue(_)
\* The number a digit sequence reads as.
DigitsValue(d) ==
    IF d = <<>> THEN 0
    ELSE DigitsValue(SubSeq(d, 1, Len(d) - 1)) * 10 + d[Len(d)]

\* A mutant of Format03d: the part number without zero padding.
FormatNoPad(n) == Digits(n)

\* f"{part:03d}": the digits of n, left-padded with zeros to at least 3.
Format03d(n) ==
    LET d == Digits(n)
    IN  IF Len(d) >= PadWidth THEN d
        ELSE [x \in 1..(PadWidth - Len(d)) |-> 0] \o d

\* out = out_dir / f"{base_name}_part{part:03d}.pdf"; base_name and out_dir
\* are fixed during one run, so the name is identified by its number field.
PartName(p) == Format03d(p)

\* A mutant of GroupEnd: the end of the group is not cut at the last page.
GroupEndNoMin(s, k, n) == s + k

\* min(start + self.pages_per_part, total)
GroupEnd(s, k, n) == Min(s + k, n)

InitSplit ==
    /\ sp_pc = "reader"
    /\ sp_source \in 0..MaxPages
    /\ pages_per_part \in 1..MaxGroup
    /\ total = 0
    /\ start = 0
    /\ sp_i = 0
    /\ part = 0
    /\ writer = <<>>
    /\ sp_dir \in BOOLEAN
    /\ split_files = <<>>
    /\ sp_written = <<>>
    /\ sp_signals = <<>>
    \* the merge page is not run
    /\ list_widget = <<>>
    /\ currentRow = -1
    /\ output_edit = ""
    /\ merge_btn = TRUE
    /\ open_btn = FALSE
    /\ progress = FALSE
    /\ m_dialog = "none"
    /\ m_pc = "off"
    /\ m_inputs = <<>>
    /\ m_output = ""
    /\ m_k = 0
    /\ m_writer = <<>>
    /\ m_written = <<>>
    /\ m_fs = <<>>
    /\ m_signals = <<>>
    /\ m_queue = <<>>
    \* the operation pages are not run
    /\ j_pages = {}
    /\ j_source = <<>>
    /\ j_btn = <<>>
    /\ j_progress = <<>>
    /\ j_dialog = <<>>
    /\ j_pc = <<>>
    /\ j_steps = <<>>
    /\ j_target = <<>>
    /\ j_signals = <<>>
    /\ j_queue = <<>>
    /\ j_fs = <<>>
    /\ j_open = {}
    /\ j_outdir = FALSE
    /\ w_pc = "off"
    /\ w_via = "gui"
    /\ w_inp = "none"
    /\ w_exists = FALSE
    /\ w_allow = FALSE
    /\ w_start = <<>>
    /\ w_end = <<>>
    /\ w_count = 0
    /\ w_args = <<>>
    /\ w_handed = <<>>
    /\ w_out = ""
    /\ w_dir = FALSE
    /\ w_opens = 0
    /\ w_closes = 0
    /\ w_calls = 0
    /\ w_exc = ""
    /\ w_reports = <<>>
    /\ im_pc = "off"
    /\ im_mode = "pages"
    /\ im_fmt = "png"
    /\ im_dpi = 72
    /\ im_doc = <<>>
    /\ im_dir = FALSE
    /\ im_mat = <<>>
    /\ im_i = 0
    /\ im_pix = <<>>
    /\ im_out = <<>>
    /\ im_files = <<>>
    /\ im_saved = <<>>
    /\ images = <<>>
    /\ widths = <<>>
    /\ heights = <<>>
    /\ max_w = 0
    /\ total_h = 0
    /\ canvas = <<>>
    /\ y = 0
    /\ im_k = 0
    /\ im_signals = <<>>
    /\ pp_pc = "off"
    /\ pp_doc = <<>>
    /\ pp_dir = FALSE
    /\ slide_w = 0
    /\ slide_h = 0
    /\ pp_i = 0
    /\ img_w = 0
    /\ img_h = 0
    /\ pp_slides = <<>>
    /\ pp_file = <<>>
    /\ pp_signals = <<>>
    /\ c_pc = "off"
    /\ c_run = 0
    /\ c_docs = <<>>
    /\ c_writer = <<>>
    /\ c_k = 0
    /\ c_signals = <<>>
    /\ e_pc = "off"
    /\ e_source = <<>>
    /\ e_password = ""
    /\ e_writer = <<>>
    /\ e_k = 0
    /\ e_out = <<>>
    /\ e_signals = <<>>
    /\ e_tried = ""
    /\ e_access = <<>>

\* reader = PdfReader(self.pdf_path); total = len(reader.pages)
SplitOpenReader ==
    /\ sp_pc = "reader"
    /\ total' = sp_source
    /\ sp_pc' = "mkdir"
    /\ UNCHANGED <<sp_source, pages_per_part, start, sp_i, part, writer,
                   sp_dir, split_files, sp_written, sp_signals>>
    /\ UNCHANGED notSplit

\* out_dir.mkdir(parents=True, exist_ok=True); part = 1; the loop starts at 0
SplitMkdir ==
    /\ sp_pc = "mkdir"
    /\ sp_dir' = TRUE
    /\ part' = 1
    /\ start' = 0
    /\ sp_pc' = "for"
    /\ UNCHANGED <<sp_source, pages_per_part, total, sp_i, writer,
                   split_files, sp_written, sp_signals>>
    /\ UNCHANGED notSplit

\* for start in range(0, total, self.pages_per_part): writer = PdfWriter()
SplitForEnter ==
    /\ sp_pc = "for"
    /\ start < total
    /\ writer' = <<>>
    /\ sp_i' = start
    /\ sp_pc' = "add"
    /\ UNCHANGED <<sp_source, pages_per_part, total, start, part, sp_dir,
                   split_files, sp_written, sp_signals>>
    /\ UNCHANGED notSplit

\* the range is exhausted: the loop is left
SplitForExit ==
    /\ sp_pc = "for"
    /\ start >= total
    /\ sp_pc' = "emit"
    /\ UNCHANGED <<sp_source, pages_per_part, total, start, sp_i, part, writer,
                   sp_dir, split_files, sp_written, sp_signals>>
    /\ UNCHANGED notSplit

\* for i in range(start, min(...)): writer.add_page(reader.pages[i])
SplitAddPage ==
    /\ sp_pc = "add"
    /\ sp_i < GroupEnd(start, pages_per_part, total)
    /\ writer' = Append(writer, sp_i)
    /\ sp_i' = sp_i + 1
    /\ UNCHANGED <<sp_pc, sp_source, pages_per_part, total, start, part,
                   sp_dir, split_files, sp_written, sp_signals>>
    /\ UNCHANGED notSplit

\* the inner range is exhausted
SplitAddDone ==
    /\ sp_pc = "add"
    /\ sp_i >= GroupEnd(start, pages_per_part, total)
    /\ sp_pc' = "open"
    /\ UNCHANGED <<sp_source, pages_per_part, total, start, sp_i, part, writer,
                   sp_dir, split_files, sp_written, sp_signals>>
    /\ UNCHANGED notSplit

\* with out.open("wb") as f: the file is created, or truncated, and is empty
SplitOpen ==
    /\ sp_pc = "open"
    /\ split_files' = (PartName(part) :> [pages |-> <<>>, closed |-> FALSE])
                         @@ split_files
    /\ sp_pc' = "write"
    /\ UNCHANGED <<sp_source, pages_per_part, total, start, sp_i, part, writer,
                   sp_dir, sp_written, sp_signals>>
    /\ UNCHANGED notSplit

\* writer.write(f), the end of the with block, part += 1, the next start
SplitWrite ==
    /\ sp_pc = "write"
    /\ split_files' = [split_files EXCEPT ![PartName(part)] =
                          [pages |-> writer, closed |-> TRUE]]
    /\ sp_written' = Append(sp_written, writer)
    /\ part' = part + 1
    /\ start' = start + pages_per_part
    /\ sp_pc' = "for"
    /\ UNCHANGED <<sp_source, pages_per_part, total, sp_i, writer, sp_dir,
                   sp_signals>>
    /\ UNCHANGED notSplit

\* self.finished_signal.emit(str(out_dir))
SplitEmitFinished ==
    /\ sp_pc = "emit"
    /\ sp_signals' = Append(sp_signals, "finished")
    /\ sp_pc' = "done"
    /\ UNCHANGED <<sp_source, pages_per_part, total, start, sp_i, part, writer,
                   sp_dir, split_files, sp_written>>
    /\ UNCHANGED notSplit

\* except Exception as e: self.error_signal.emit(str(e)).  The statements
\* that can raise: PdfReader(...), mkdir, open and write (the file of a
\* failed write stays as far as it was written, closed by the with block).
SplitRaise ==
    /\ sp_pc \in {"reader", "mkdir", "open", "write"}
    /\ sp_signals' = Append(sp_signals, "error")
    /\ sp_pc' = "done"
    /\ UNCHANGED <<sp_source, pages_per_part, total, start, sp_i, part, writer,
                   sp_dir, split_files, sp_written>>
    /\ UNCHANGED notSplit

NextSplit ==
    \/ SplitOpenReader
    \/ SplitMkdir
    \/ SplitForEnter
    \/ SplitForExit
    \/ SplitAddPage
    \/ SplitAddDone
    \/ SplitOpen
    \/ SplitWrite
    \/ SplitEmitFinished
    \/ SplitRaise

SpecSplit == InitSplit /\ [][NextSplit]_vars

\* ------------------------------------------------------------------ merge

\* Largest page count of a document handed to MergeThread directly.
MaxDocPages == 5
\* Largest number of inputs of a MergeThread started directly.
MaxInputs == 3
\* Largest number of rows of the merge list.
MaxList == 2
\* Largest number of files picked in one file dialog.
MaxPick == 2
\* Largest number of rows of the merge list while only the list is edited.
MaxRows == 3

\* All sequences over S of length lo..hi.
SeqsOf(S, lo, hi) == UNION {[1..n -> S] : n \in lo..hi}

\* The documents the file dialog of the merge page offers.
ListDocs == {0, 2}

\* A document is identified by its page count; its pages, in its own order,
\* are <<document, 0>>, <<document, 1>>, ...
PageCount(d) == d

\* reader.pages of PdfReader(p)
DocPages(d) == [x \in 1..PageCount(d) |-> <<d, x - 1>>]

\* A mutant of AddPages: the pages of an input are put before the others.
AddPagesInFront(w, d) == DocPages(d) \o w

\* for page in reader.pages: writer.add_page(page)
AddPages(w, d) == w \o DocPages(d)

RECURSIVE TotalPages(_)
\* The number of pages of a list of documents.
TotalPages(docs) ==
    IF docs = <<>> THEN 0 ELSE PageCount(Head(docs)) + TotalPages(Tail(docs))

\* No path: the empty text of output_edit.
NoPath == ""

\* str(first.with_name(first.stem + "_merged.pdf")): the path next to the
\* first picked file (the picked files lie in one folder and the path is
\* identified by its suffix).
MergedName(first) == "_merged.pdf"

\* The path a save dialog returns when the user names a file of his own.
ChosenName == "out.pdf"

OutPaths == {MergedName(d) : d \in ListDocs} \cup {ChosenName}

\* Path(p).exists()
Exists(fs, p) == fs[p] # "absent"

\* The list without the row r (0-based): list_widget.takeItem(r).
TakeItem(l, r) == [x \in 1..(Len(l) - 1) |-> IF x <= r THEN l[x] ELSE l[x + 1]]

\* A mutant of InsertItem: the item is added as the last row.
InsertItemAtEnd(l, r, d) == Append(l, d)

\* The list with item d inserted as row r (0-based): insertItem(r, item).
InsertItem(l, r, d) ==
    [x \in 1..(Len(l) + 1) |->
        IF x <= r THEN l[x] ELSE IF x = r + 1 THEN d ELSE l[x - 1]]

\* The current row after the current row r of a list of n rows was taken:
\* the view moves to the following row, or to the one before at the end.
RowAfterTake(n, r) == IF r < n - 1 THEN r ELSE r - 1

\* A mutant of TooFew: the test counts pages, not files.
TooFewPages(inputs) == TotalPages(inputs) < 2

\* if len(inputs) < 2
TooFew(inputs) == Len(inputs) < 2

\* The fields of a MergeThread and of its run are those of the page's
\* self.thread; after on_thread_done nothing reads them any more.
MergeThreadGone ==
    /\ m_pc' = "off"
    /\ m_inputs' = <<>>
    /\ m_output' = NoPath
    /\ m_k' = 0
    /\ m_writer' = <<>>
    /\ m_written' = <<>>
    /\ m_signals' = <<>>

\* PdfMergePage.__init__: an empty list, no thread; the output files may
\* exist from earlier runs.
InitMerge ==
    /\ list_widget = <<>>
    /\ currentRow = -1
    /\ output_edit = NoPath
    /\ merge_btn = TRUE
    /\ open_btn = FALSE
    /\ progress = FALSE
    /\ m_dialog = "none"
    /\ m_pc = "off"
    /\ m_inputs = <<>>
    /\ m_output = NoPath
    /\ m_k = 0
    /\ m_writer = <<>>
    /\ m_written = <<>>
    /\ m_fs = [p \in OutPaths |-> "absent"]
    /\ m_signals = <<>>
    /\ m_queue = <<>>
    \* the split thread is not run
    /\ sp_pc = "off"
    /\ sp_source = 0
    /\ pages_per_part = 1
    /\ total = 0
    /\ start = 0
    /\ sp_i = 0
    /\ part = 0
    /\ writer = <<>>
    /\ sp_dir = FALSE
    /\ split_files = <<>>
    /\ sp_written = <<>>
    /\ sp_signals = <<>>
    \* the operation pages are not run
    /\ j_pages = {}
    /\ j_source = <<>>
    /\ j_btn = <<>>
    /\ j_progress = <<>>
    /\ j_dialog = <<>>
    /\ j_pc = <<>>
    /\ j_steps = <<>>
    /\ j_target = <<>>
    /\ j_signals = <<>>
    /\ j_queue = <<>>
    /\ j_fs = <<>>
    /\ j_open = {}
    /\ j_outdir = FALSE
    /\ w_pc = "off"
    /\ w_via = "gui"
    /\ w_inp = "none"
    /\ w_exists = FALSE
    /\ w_allow = FALSE
    /\ w_start = <<>>
    /\ w_end = <<>>
    /\ w_count = 0
    /\ w_args = <<>>
    /\ w_handed = <<>>
    /\ w_out = ""
    /\ w_dir = FALSE
    /\ w_opens = 0
    /\ w_closes = 0
    /\ w_calls = 0
    /\ w_exc = ""
    /\ w_reports = <<>>
    /\ im_pc = "off"
    /\ im_mode = "pages"
    /\ im_fmt = "png"
    /\ im_dpi = 72
    /\ im_doc = <<>>
    /\ im_dir = FALSE
    /\ im_mat = <<>>
    /\ im_i = 0
    /\ im_pix = <<>>
    /\ im_out = <<>>
    /\ im_files = <<>>
    /\ im_saved = <<>>
    /\ images = <<>>
    /\ widths = <<>>
    /\ heights = <<>>
    /\ max_w = 0
    /\ total_h = 0
    /\ canvas = <<>>
    /\ y = 0
    /\ im_k = 0
    /\ im_signals = <<>>
    /\ pp_pc = "off"
    /\ pp_doc = <<>>
    /\ pp_dir = FALSE
    /\ slide_w = 0
    /\ slide_h = 0
    /\ pp_i = 0
    /\ img_w = 0
    /\ img_h = 0
    /\ pp_slides = <<>>
    /\ pp_file = <<>>
    /\ pp_signals = <<>>
    /\ c_pc = "off"
    /\ c_run = 0
    /\ c_docs = <<>>
    /\ c_writer = <<>>
    /\ c_k = 0
    /\ c_signals = <<>>
    /\ e_pc = "off"
    /\ e_source = <<>>
    /\ e_password = ""
    /\ e_writer = <<>>
    /\ e_k = 0
    /\ e_out = <<>>
    /\ e_signals = <<>>
    /\ e_tried = ""
    /\ e_access = <<>>

\* The state right after on_merge has started a MergeThread on a list of at
\* least two documents, the output file not existing yet.
InitMergeRun ==
    /\ list_widget \in SeqsOf(0..MaxDocPages, 2, MaxInputs)
    /\ currentRow = -1
    /\ output_edit = ChosenName
    /\ merge_btn = FALSE
    /\ open_btn = FALSE
    /\ progress = TRUE
    /\ m_dialog = "none"
    /\ m_pc = "start"
    /\ m_inputs = list_widget
    /\ m_output = ChosenName
    /\ m_k = 0
    /\ m_writer = <<>>
    /\ m_written = <<>>
    /\ m_fs = [p \in OutPaths |-> "absent"]
    /\ m_signals = <<>>
    /\ m_queue = <<>>
    \* the split thread is not run
    /\ sp_pc = "off"
    /\ sp_source = 0
    /\ pages_per_part = 1
    /\ total = 0
    /\ start = 0
    /\ sp_i = 0
    /\ part = 0
    /\ writer = <<>>
    /\ sp_dir = FALSE
    /\ split_files = <<>>
    /\ sp_written = <<>>
    /\ sp_signals = <<>>
    \* the operation pages are not run
    /\ j_pages = {}
    /\ j_source = <<>>
    /\ j_btn = <<>>
    /\ j_progress = <<>>
    /\ j_dialog = <<>>
    /\ j_pc = <<>>
    /\ j_steps = <<>>
    /\ j_target = <<>>
    /\ j_signals = <<>>
    /\ j_queue = <<>>
    /\ j_fs = <<>>
    /\ j_open = {}
    /\ j_outdir = FALSE
    /\ w_pc = "off"
    /\ w_via = "gui"
    /\ w_inp = "none"
    /\ w_exists = FALSE
    /\ w_allow = FALSE
    /\ w_start = <<>>
    /\ w_end = <<>>
    /\ w_count = 0
    /\ w_args = <<>>
    /\ w_handed = <<>>
    /\ w_out = ""
    /\ w_dir = FALSE
    /\ w_opens = 0
    /\ w_closes = 0
    /\ w_calls = 0
    /\ w_exc = ""
    /\ w_reports = <<>>
    /\ im_pc = "off"
    /\ im_mode = "pages"
    /\ im_fmt = "png"
    /\ im_dpi = 72
    /\ im_doc = <<>>
    /\ im_dir = FALSE
    /\ im_mat = <<>>
    /\ im_i = 0
    /\ im_pix = <<>>
    /\ im_out = <<>>
    /\ im_files = <<>>
    /\ im_saved = <<>>
    /\ images = <<>>
    /\ widths = <<>>
    /\ heights = <<>>
    /\ max_w = 0
    /\ total_h = 0
    /\ canvas = <<>>
    /\ y = 0
    /\ im_k = 0
    /\ im_signals = <<>>
    /\ pp_pc = "off"
    /\ pp_doc = <<>>
    /\ pp_dir = FALSE
    /\ slide_w = 0
    /\ slide_h = 0
    /\ pp_i = 0
    /\ img_w = 0
    /\ img_h = 0
    /\ pp_slides = <<>>
    /\ pp_file = <<>>
    /\ pp_signals = <<>>
    /\ c_pc = "off"
    /\ c_run = 0
    /\ c_docs = <<>>
    /\ c_writer = <<>>
    /\ c_k = 0
    /\ c_signals = <<>>
    /\ e_pc = "off"
    /\ e_source = <<>>
    /\ e_password = ""
    /\ e_writer = <<>>
    /\ e_k = 0
    /\ e_out = <<>>
    /\ e_signals = <<>>
    /\ e_tried = ""
    /\ e_access = <<>>

\* on_add: the dialog returns files (none when cancelled); each becomes a
\* row; an empty output_edit is set from the first file.
MergeOnAddUpTo(rows) ==
    \E files \in SeqsOf(ListDocs, 0, MaxPick) :
        /\ m_dialog = "none"
        /\ Len(list_widget) + Len(files) <= rows
        /\ list_widget' = list_widget \o files
        /\ output_edit' = IF files # <<>> /\ output_edit = NoPath
                          THEN MergedName(files[1]) ELSE output_edit
        /\ UNCHANGED <<currentRow, merge_btn, open_btn, progress, m_dialog,
                       m_pc, m_inputs, m_output, m_k, m_writer, m_written,
                       m_fs, m_signals, m_queue>>
        /\ UNCHANGED notMerge

\* on_add on the merge page, the list holding at most MaxList rows.
MergeOnAdd == MergeOnAddUpTo(MaxList)

\* The user clicks a row of the list.
MergeSelectRow ==
    \E r \in 0..(Len(list_widget) - 1) :
        /\ m_dialog = "none"
        /\ currentRow' = r
        /\ UNCHANGED <<list_widget, output_edit, merge_btn, open_btn, progress,
                       m_dialog, m_pc, m_inputs, m_output, m_k, m_writer,
                       m_written, m_fs, m_signals, m_queue>>
        /\ UNCHANGED notMerge

\* on_remove
MergeOnRemove ==
    /\ m_dialog = "none"
    /\ currentRow >= 0
    /\ list_widget' = TakeItem(list_widget, currentRow)
    /\ currentRow' = RowAfterTake(Len(list_widget), currentRow)
    /\ UNCHANGED <<output_edit, merge_btn, open_btn, progress, m_dialog, m_pc,
                   m_inputs, m_output, m_k, m_writer, m_written, m_fs,
                   m_signals, m_queue>>
    /\ UNCHANGED notMerge

\* on_up
MergeOnUp ==
    /\ m_dialog = "none"
    /\ currentRow > 0
    /\ list_widget' = InsertItem(TakeItem(list_widget, currentRow),
                                 currentRow - 1, list_widget[currentRow + 1])
    /\ currentRow' = currentRow - 1
    /\ UNCHANGED <<output_edit, merge_btn, open_btn, progress, m_dialog, m_pc,
                   m_inputs, m_output, m_k, m_writer, m_written, m_fs,
                   m_signals, m_queue>>
    /\ UNCHANGED notMerge

\* on_down
MergeOnDown ==
    /\ m_dialog = "none"
    /\ 0 <= currentRow
    /\ currentRow < Len(list_widget) - 1
    /\ list_widget' = InsertItem(TakeItem(list_widget, currentRow),
                                 currentRow + 1, list_widget[currentRow + 1])
    /\ currentRow' = currentRow + 1
    /\ UNCHANGED <<output_edit, merge_btn, open_btn, progress, m_dialog, m_pc,
                   m_inputs, m_output, m_k, m_writer, m_written, m_fs,
                   m_signals, m_queue>>
    /\ UNCHANGED notMerge

\* on_choose_output: the save dialog returns a path f (a cancelled dialog
\* returns none and nothing changes).
MergeOnChooseOutput ==
    \E f \in OutPaths :
        /\ m_dialog = "none"
        /\ output_edit' = f
        /\ open_btn' = Exists(m_fs, f)
        /\ UNCHANGED <<list_widget, currentRow, merge_btn, progress, m_dialog,
                       m_pc, m_inputs, m_output, m_k, m_writer, m_written,
                       m_fs, m_signals, m_queue>>
        /\ UNCHANGED notMerge

\* on_merge, run by a click on the enabled merge button: the inputs are the
\* rows from first to last; fewer than two and an empty output are refused
\* with a warning; otherwise a MergeThread is made and started.
MergeOnMerge ==
    /\ m_dialog = "none"
    /\ merge_btn
    /\ LET inputs == list_widget
           out == output_edit
       IN  IF TooFew(inputs)
           THEN /\ m_dialog' = "TooFewInputs"
                /\ UNCHANGED <<progress, merge_btn, open_btn, m_pc, m_inputs,
                               m_output, m_k, m_writer, m_written, m_signals>>
           ELSE IF out = NoPath
           THEN /\ m_dialog' = "NoOutput"
                /\ UNCHANGED <<progress, merge_btn, open_btn, m_pc, m_inputs,
                               m_output, m_k, m_writer, m_written, m_signals>>
           ELSE /\ progress' = TRUE
                /\ merge_btn' = FALSE
                /\ open_btn' = FALSE
                /\ m_pc' = "start"
                /\ m_inputs' = inputs
                /\ m_output' = out
                /\ m_k' = 0
                /\ m_writer' = <<>>
                /\ m_written' = <<>>
                /\ m_signals' = <<>>
                /\ UNCHANGED m_dialog
    /\ UNCHANGED <<list_widget, currentRow, output_edit, m_fs, m_queue>>
    /\ UNCHANGED notMerge

\* run: writer = PdfWriter(); the for loop starts at the first input
MergeStart ==
    /\ m_pc = "start"
    /\ m_writer' = <<>>
    /\ m_k' = 1
    /\ m_pc' = "for"
    /\ UNCHANGED <<list_widget, currentRow, output_edit, merge_btn, open_btn,
                   progress, m_dialog, m_inputs, m_output, m_written, m_fs,
                   m_signals, m_queue>>
    /\ UNCHANGED notMerge

\* for p in self.inputs: reader = PdfReader(p); every page is added
MergeReadInput ==
    /\ m_pc = "for"
    /\ m_k <= Len(m_inputs)
    /\ m_writer' = AddPages(m_writer, m_inputs[m_k])
    /\ m_k' = m_k + 1
    /\ UNCHANGED <<list_widget, currentRow, output_edit, merge_btn, open_btn,
                   progress, m_dialog, m_pc, m_inputs, m_output, m_written,
                   m_fs, m_signals, m_queue>>
    /\ UNCHANGED notMerge

\* the inputs are exhausted; out_path = Path(self.output)
MergeForExit ==
    /\ m_pc = "for"
    /\ m_k > Len(m_inputs)
    /\ m_pc' = "mkdir"
    /\ UNCHANGED <<list_widget, currentRow, output_edit, merge_btn, open_btn,
                   progress, m_dialog, m_inputs, m_output, m_k, m_writer,
                   m_written, m_fs, m_signals, m_queue>>
    /\ UNCHANGED notMerge

\* out_path.parent.mkdir(parents=True, exist_ok=True)
MergeMkdir ==
    /\ m_pc = "mkdir"
    /\ m_pc' = "open"
    /\ UNCHANGED <<list_widget, currentRow, output_edit, merge_btn, open_btn,
                   progress, m_dialog, m_inputs, m_output, m_k, m_writer,
                   m_written, m_fs, m_signals, m_queue>>
    /\ UNCHANGED notMerge

\* with out_path.open("wb") as f: the file is created, or truncated
MergeOpen ==
    /\ m_pc = "open"
    /\ m_fs' = [m_fs EXCEPT ![m_output] = "partial"]
    /\ m_pc' = "write"
    /\ UNCHANGED <<list_widget, currentRow, output_edit, merge_btn, open_btn,
                   progress, m_dialog, m_inputs, m_output, m_k, m_writer,
                   m_written, m_signals, m_queue>>
    /\ UNCHANGED notMerge

\* writer.write(f) and the end of the with block
MergeWrite ==
    /\ m_pc = "write"
    /\ m_fs' = [m_fs EXCEPT ![m_output] = "full"]
    /\ m_written' = m_writer
    /\ m_pc' = "emit"
    /\ UNCHANGED <<list_widget, currentRow, output_edit, merge_btn, open_btn,
                   progress, m_dialog, m_inputs, m_output, m_k, m_writer,
                   m_signals, m_queue>>
    /\ UNCHANGED notMerge

\* self.finished_signal.emit(str(out_path)); run returns and the thread
\* emits finished: both reach the GUI thread through its event queue.
MergeEmitFinished ==
    /\ m_pc = "emit"
    /\ m_signals' = Append(m_signals, "finished")
    /\ m_queue' = m_queue \o <<"finished_signal", "finished">>
    /\ m_pc' = "done"
    /\ UNCHANGED <<list_widget, currentRow, output_edit, merge_btn, open_btn,
                   progress, m_dialog, m_inputs, m_output, m_k, m_writer,
                   m_written, m_fs>>
    /\ UNCHANGED notMerge

\* except Exception as e: self.error_signal.emit(str(e)); run returns.  The
\* statements that can raise: PdfReader(p) of an input, mkdir, open, write.
MergeRaise ==
    /\ \/ m_pc = "for" /\ m_k <= Len(m_inputs)
       \/ m_pc \in {"mkdir", "open", "write"}
    /\ m_signals' = Append(m_signals, "error")
    /\ m_queue' = m_queue \o <<"error_signal", "finished">>
    /\ m_pc' = "done"
    /\ UNCHANGED <<list_widget, currentRow, output_edit, merge_btn, open_btn,
                   progress, m_dialog, m_inputs, m_output, m_k, m_writer,
                   m_written, m_fs>>
    /\ UNCHANGED notMerge

\* on_finished(out)
MergeOnFinished ==
    /\ m_queue # <<>>
    /\ Head(m_queue) = "finished_signal"
    /\ m_queue' = Tail(m_queue)
    /\ output_edit' = m_output
    /\ open_btn' = Exists(m_fs, m_output)
    /\ m_dialog' = "finished"
    /\ UNCHANGED <<list_widget, currentRow, merge_btn, progress, m_pc,
                   m_inputs, m_output, m_k, m_writer, m_written, m_fs,
                   m_signals>>
    /\ UNCHANGED notMerge

\* on_error(msg)
MergeOnError ==
    /\ m_queue # <<>>
    /\ Head(m_queue) = "error_signal"
    /\ m_queue' = Tail(m_queue)
    /\ m_dialog' = "error"
    /\ UNCHANGED <<list_widget, currentRow, output_edit, merge_btn, open_btn,
                   progress, m_pc, m_inputs, m_output, m_k, m_writer,
                   m_written, m_fs, m_signals>>
    /\ UNCHANGED notMerge

\* The user closes the message box on the screen.  A message box is modal:
\* the handlers of the page's widgets do not run while it is open (the
\* queued signals of the thread are still delivered).
MergeCloseDialog ==
    /\ m_dialog # "none"
    /\ m_dialog' = "none"
    /\ UNCHANGED <<list_widget, currentRow, output_edit, merge_btn, open_btn,
                   progress, m_pc, m_inputs, m_output, m_k, m_writer,
                   m_written, m_fs, m_signals, m_queue>>
    /\ UNCHANGED notMerge

\* on_thread_done
MergeOnThreadDone ==
    /\ m_queue # <<>>
    /\ Head(m_queue) = "finished"
    /\ m_queue' = Tail(m_queue)
    /\ progress' = FALSE
    /\ merge_btn' = TRUE
    /\ MergeThreadGone
    /\ UNCHANGED <<list_widget, currentRow, output_edit, open_btn, m_dialog,
                   m_fs>>
    /\ UNCHANGED notMerge

NextMergeRun ==
    \/ MergeStart
    \/ MergeReadInput
    \/ MergeForExit
    \/ MergeMkdir
    \/ MergeOpen
    \/ MergeWrite
    \/ MergeEmitFinished
    \/ MergeRaise
    \/ MergeOnFinished
    \/ MergeOnError
    \/ MergeCloseDialog

NextMerge ==
    \/ MergeOnAdd
    \/ MergeSelectRow
    \/ MergeOnRemove
    \/ MergeOnUp
    \/ MergeOnDown
    \/ MergeOnChooseOutput
    \/ MergeOnMerge
    \/ MergeOnThreadDone
    \/ NextMergeRun

\* MergeThread.run on every list of inputs, up to the delivery of its signal.
SpecMergeRun == InitMergeRun /\ [][NextMergeRun]_vars

\* The merge page: the list, the buttons and the threads they start.
SpecMerge == InitMerge /\ [][NextMerge]_vars

\* The list buttons and the merge button; a started thread is not followed.
NextMergeList ==
    \/ MergeOnAddUpTo(MaxRows)
    \/ MergeSelectRow
    \/ MergeOnRemove
    \/ MergeOnUp
    \/ MergeOnDown
    \/ MergeOnChooseOutput
    \/ MergeOnMerge
    \/ MergeCloseDialog

\* The merge page while its list is edited and the merge button clicked.
SpecMergeList == InitMerge /\ [][NextMergeList]_vars

\* ------------------------------------------------------------------- jobs

\* Largest number of files one split or per-page image export writes.
MaxParts == 2

\* The operation pages; each owns one start button and one self.thread.
Pages == {"merge", "split", "compress", "encrypt", "image", "ppt", "word"}

\* The paths a save dialog returns for a single output file.
Files == {"f1", "f2"}

\* The text of an empty output_edit or out_dir_edit.
NoTarget == ""

\* The folder chosen for the files of a split or a per-page image export.
OutDir == "dir"

\* What current_pdf_path is: None, a path that is no file, a file.
Inputs == {"none", "missing", "file"}

\* A source file that lies at none of the paths in Files.
Elsewhere == "src"

\* The paths a source file can lie at: the save dialog of a page that
\* writes a PDF offers every existing PDF, the page's own source included.
SourcePaths(fs) == {f \in Files : fs[<<f, 0>>] # "absent"} \cup {Elsewhere}

\* The file statement j of a run writes: the thread's output path itself
\* (j = 0), or file number j of the page's series in the output folder
\* (<base>_part<j>.pdf of a split, <stem>_page<j>.<ext> of an image export).
FileOf(p, target, j) == IF j = 0 THEN <<target, 0>> ELSE <<p, j>>

AllFiles == {<<f, 0>> : f \in Files}
            \cup {<<p, j>> : p \in {"split", "image"}, j \in 1..MaxParts}

\* The statements of a run, in execution order, as <<kind, file number>>:
\*   build       work on documents in memory (open, copy, render, encrypt)
\*   check       convert_pdf_to_docx: the is_file test
\*   mkdir       mkdir(parents=True, exist_ok=True) of the output folder
\*   open write  with out.open("wb") as f: writer.write(f)
\*   save_open save_write   a library call that creates and writes the file
\*   close       cv.close()
\*   raise       a raise statement
\*   emit        finished_signal.emit(...)
S(kind, j) == <<kind, j>>

\* MergeThread.run
MergeRunSteps ==
    <<S("build", 0), S("mkdir", 0), S("open", 0), S("write", 0), S("emit", 0)>>

\* CompressThread.run
CompressRunSteps ==
    <<S("build", 0), S("mkdir", 0), S("open", 0), S("write", 0), S("emit", 0)>>

\* EncryptThread.run
EncryptRunSteps ==
    <<S("build", 0), S("mkdir", 0), S("open", 0), S("write", 0), S("emit", 0)>>

RECURSIVE SplitPartSteps(_, _)
\* SplitThread.run: the body of the for loop for the parts j .. n
SplitPartSteps(j, n) ==
    IF j > n THEN <<>>
    ELSE <<S("build", j), S("open", j), S("write", j)>> \o SplitPartSteps(j + 1, n)

\* SplitThread.run on a source that yields n parts
SplitRunSteps(n) ==
    <<S("build", 0), S("mkdir", 0)>> \o SplitPartSteps(1, n) \o <<S("emit", 0)>>

RECURSIVE ImagePageSteps(_, _)
\* PdfToImageThread.run, mode "pages": the body of the for loop, pages j .. n
ImagePageSteps(j, n) ==
    IF j > n THEN <<>>
    ELSE <<S("build", j), S("save_open", j), S("save_write", j)>>
         \o ImagePageSteps(j + 1, n)

\* A mutant of ImageStitchSteps: an empty list of images is not refused.
ImageStitchStepsNoCheck(n) ==
    <<S("build", 0), S("build", 0), S("save_open", 0), S("save_write", 0),
      S("emit", 0)>>

\* PdfToImageThread.run after the "pages" branch: render all pages, raise
\* when there is none, compose the canvas and save it.
ImageStitchSteps(n) ==
    <<S("build", 0)>>
    \o (IF n = 0 THEN <<S("raise", 0)>>
        ELSE <<S("build", 0), S("save_open", 0), S("save_write", 0), S("emit", 0)>>)

\* A mutant of ImageRunSteps: the "pages" branch does not return after its
\* emit and runs on into the stitching code.
ImageRunStepsNoReturn(mode, n) ==
    <<S("mkdir", 0), S("build", 0)>>
    \o (IF mode = "pages" THEN ImagePageSteps(1, n) \o <<S("emit", 0)>> ELSE <<>>)
    \o ImageStitchSteps(n)

\* PdfToImageThread.run on a source of n pages
ImageRunSteps(mode, n) ==
    <<S("mkdir", 0), S("build", 0)>>
    \o (IF mode = "pages" THEN ImagePageSteps(1, n) \o <<S("emit", 0)>>
        ELSE ImageStitchSteps(n))

\* PdfToPptThread.run
PptRunSteps ==
    <<S("mkdir", 0), S("build", 0), S("save_open", 0), S("save_write", 0),
      S("emit", 0)>>

\* ConvertThread.run: convert_pdf_to_docx, then the emit
WordRunSteps ==
    <<S("check", 0), S("mkdir", 0), S("build", 0), S("save_open", 0),
      S("save_write", 0), S("close", 0), S("emit", 0)>>

\* The statement the thread of page p executes next.
Stmt(p) == j_steps[p][j_pc[p]]

AtStmt(p, kinds) ==
    /\ j_pc[p] >= 1
    /\ j_pc[p] <= Len(j_steps[p])
    /\ Stmt(p)[1] \in kinds

StmtFile(p) == FileOf(p, j_target[p], Stmt(p)[2])

\* The position of a run that has returned.
Returned(p) == Len(j_steps[p]) + 1

\* A mutant of EmptyPassword: the password is not tested.
EmptyPasswordNever(pwd) == FALSE

\* if not pwd
EmptyPassword(pwd) == pwd = ""

\* The windows as constructed: buttons enabled, progress bars hidden, no
\* thread; an output file may exist from before.  The user works on one
\* page.
InitJobs ==
    /\ j_pages \in {{p} : p \in Pages}
    /\ j_source = [p \in Pages |-> Elsewhere]
    /\ j_btn = [p \in Pages |-> TRUE]
    /\ j_progress = [p \in Pages |-> FALSE]
    /\ j_dialog = <<>>
    /\ j_pc = [p \in Pages |-> 0]
    /\ j_steps = [p \in Pages |-> <<>>]
    /\ j_target = [p \in Pages |-> NoTarget]
    /\ j_signals = [p \in Pages |-> <<>>]
    /\ j_queue = <<>>
    /\ j_fs \in [AllFiles -> {"absent", "old"}]
    /\ \A f \in AllFiles : f[2] # 0 => j_fs[f] = "absent"
    /\ j_open = {}
    /\ j_outdir \in BOOLEAN
    \* the split thread and the merge page are not run
    /\ sp_pc = "off"
    /\ sp_source = 0
    /\ pages_per_part = 1
    /\ total = 0
    /\ start = 0
    /\ sp_i = 0
    /\ part = 0
    /\ writer = <<>>
    /\ sp_dir = FALSE
    /\ split_files = <<>>
    /\ sp_written = <<>>
    /\ sp_signals = <<>>
    /\ list_widget = <<>>
    /\ currentRow = -1
    /\ output_edit = ""
    /\ merge_btn = TRUE
    /\ open_btn = FALSE
    /\ progress = FALSE
    /\ m_dialog = "none"
    /\ m_pc = "off"
    /\ m_inputs = <<>>
    /\ m_output = ""
    /\ m_k = 0
    /\ m_writer = <<>>
    /\ m_written = <<>>
    /\ m_fs = <<>>
    /\ m_signals = <<>>
    /\ m_queue = <<>>
    /\ w_pc = "off"
    /\ w_via = "gui"
    /\ w_inp = "none"
    /\ w_exists = FALSE
    /\ w_allow = FALSE
    /\ w_start = <<>>
    /\ w_end = <<>>
    /\ w_count = 0
    /\ w_args = <<>>
    /\ w_handed = <<>>
    /\ w_out = ""
    /\ w_dir = FALSE
    /\ w_opens = 0
    /\ w_closes = 0
    /\ w_calls = 0
    /\ w_exc = ""
    /\ w_reports = <<>>
    /\ im_pc = "off"
    /\ im_mode = "pages"
    /\ im_fmt = "png"
    /\ im_dpi = 72
    /\ im_doc = <<>>
    /\ im_dir = FALSE
    /\ im_mat = <<>>
    /\ im_i = 0
    /\ im_pix = <<>>
    /\ im_out = <<>>
    /\ im_files = <<>>
    /\ im_saved = <<>>
    /\ images = <<>>
    /\ widths = <<>>
    /\ heights = <<>>
    /\ max_w = 0
    /\ total_h = 0
    /\ canvas = <<>>
    /\ y = 0
    /\ im_k = 0
    /\ im_signals = <<>>
    /\ pp_pc = "off"
    /\ pp_doc = <<>>
    /\ pp_dir = FALSE
    /\ slide_w = 0
    /\ slide_h = 0
    /\ pp_i = 0
    /\ img_w = 0
    /\ img_h = 0
    /\ pp_slides = <<>>
    /\ pp_file = <<>>
    /\ pp_signals = <<>>
    /\ c_pc = "off"
    /\ c_run = 0
    /\ c_docs = <<>>
    /\ c_writer = <<>>
    /\ c_k = 0
    /\ c_signals = <<>>
    /\ e_pc = "off"
    /\ e_source = <<>>
    /\ e_password = ""
    /\ e_writer = <<>>
    /\ e_k = 0
    /\ e_out = <<>>
    /\ e_signals = <<>>
    /\ e_tried = ""
    /\ e_access = <<>>

\* QMessageBox.warning(self, "提示", ...) and return
Refuse(p, text) ==
    /\ j_dialog' = <<p, text>>
    /\ UNCHANGED <<j_pages, j_source, j_btn, j_progress, j_pc, j_steps, j_target,
                   j_signals, j_queue, j_fs, j_open, j_outdir>>

\* A mutant of StartThreadOn: the button is not disabled.
StartThreadOnEnabled(p, src, target, steps) ==
    /\ j_source' = [j_source EXCEPT ![p] = src]
    /\ j_progress' = [j_progress EXCEPT ![p] = TRUE]
    /\ j_pc' = [j_pc EXCEPT ![p] = 1]
    /\ j_steps' = [j_steps EXCEPT ![p] = steps]
    /\ j_target' = [j_target EXCEPT ![p] = target]
    /\ j_signals' = [j_signals EXCEPT ![p] = <<>>]
    /\ UNCHANGED <<j_pages, j_btn, j_dialog, j_queue, j_fs, j_open, j_outdir>>

\* self.progress.show(); the button is disabled; self.thread = ...Thread(...);
\* the signals are connected; self.thread.start()
StartThreadOn(p, src, target, steps) ==
    /\ j_source' = [j_source EXCEPT ![p] = src]
    /\ j_progress' = [j_progress EXCEPT ![p] = TRUE]
    /\ j_btn' = [j_btn EXCEPT ![p] = FALSE]
    /\ j_pc' = [j_pc EXCEPT ![p] = 1]
    /\ j_steps' = [j_steps EXCEPT ![p] = steps]
    /\ j_target' = [j_target EXCEPT ![p] = target]
    /\ j_signals' = [j_signals EXCEPT ![p] = <<>>]
    /\ UNCHANGED <<j_pages, j_dialog, j_queue, j_fs, j_open, j_outdir>>

\* The same, the source lying at a path that no output is written to.
StartThread(p, target, steps) == StartThreadOn(p, Elsewhere, target, steps)

\* A click reaches the handler of an enabled button while no message box
\* is open; the user clicks on the pages of the session.
CanClick(p) == p \in j_pages /\ j_btn[p] /\ j_dialog = <<>>

\* PdfMergePage.on_merge on a list of inputs and the text of output_edit
OnMerge ==
    \E inputs \in SeqsOf({2}, 0, 2), out \in Files \cup {NoTarget} :
        /\ CanClick("merge")
        /\ IF TooFew(inputs) THEN Refuse("merge", "TooFewInputs")
           ELSE IF out = NoTarget THEN Refuse("merge", "NoOutput")
           ELSE \E src \in SourcePaths(j_fs) :
                    StartThreadOn("merge", src, out, MergeRunSteps)
        /\ UNCHANGED notJobs

\* PdfSplitPage.on_split; the source yields n parts
OnSplit ==
    \E inp \in Inputs, out_dir \in {OutDir, NoTarget}, n \in 0..MaxParts :
        /\ CanClick("split")
        /\ IF inp # "file" THEN Refuse("split", "NoInput")
           ELSE IF out_dir = NoTarget THEN Refuse("split", "NoOutput")
           ELSE StartThread("split", out_dir, SplitRunSteps(n))
        /\ UNCHANGED notJobs

\* PdfCompressPage.on_compress
OnCompress ==
    \E inp \in Inputs, out \in Files \cup {NoTarget} :
        /\ CanClick("compress")
        /\ IF inp # "file" THEN Refuse("compress", "NoInput")
           ELSE IF out = NoTarget THEN Refuse("compress", "NoOutput")
           ELSE \E src \in SourcePaths(j_fs) :
                    StartThreadOn("compress", src, out, CompressRunSteps)
        /\ UNCHANGED notJobs

\* PdfEncryptPage.on_encrypt with the texts of the password and output edits
OnEncryptWith(inp, pwd, out) ==
    /\ CanClick("encrypt")
    /\ IF inp # "file" THEN Refuse("encrypt", "NoInput")
       ELSE IF EmptyPassword(pwd) THEN Refuse("encrypt", "EmptyPassword")
       ELSE IF out = NoTarget THEN Refuse("encrypt", "NoOutput")
       ELSE \E src \in SourcePaths(j_fs) :
                StartThreadOn("encrypt", src, out, EncryptRunSteps)
    /\ UNCHANGED notJobs

\* The passwords typed: none, a blank, a word.
Passwords == {"", " ", "secret"}

OnEncrypt ==
    \E inp \in Inputs, pwd \in Passwords, out \in Files \cup {NoTarget} :
        OnEncryptWith(inp, pwd, out)

\* PdfToImagePage.on_convert; the source has n pages; in mode "single" the
\* folder and the name give the path of the one image
OnConvertImage ==
    \E inp \in Inputs, mode \in {"pages", "single"}, n \in 0..MaxParts,
       out \in Files \cup {NoTarget} :
        /\ CanClick("image")
        /\ IF inp # "file" THEN Refuse("image", "NoInput")
           ELSE IF out = NoTarget THEN Refuse("image", "NoOutput")
           ELSE StartThread("image", IF mode = "pages" THEN OutDir ELSE out,
                            ImageRunSteps(mode, n))
        /\ UNCHANGED notJobs

\* PdfToPptPage.on_convert
OnConvertPpt ==
    \E inp \in Inputs, out \in Files \cup {NoTarget} :
        /\ CanClick("ppt")
        /\ IF inp # "file" THEN Refuse("ppt", "NoInput")
           ELSE IF out = NoTarget THEN Refuse("ppt", "NoOutput")
           ELSE StartThread("ppt", out, PptRunSteps)
        /\ UNCHANGED notJobs

\* PdfToWordPage.on_convert; overwrite is the check box, yes the answer to
\* the question asked when the output exists and the box is not checked
OnConvertWord ==
    \E inp \in Inputs, out \in Files \cup {NoTarget}, overwrite \in BOOLEAN,
       yes \in BOOLEAN :
        /\ CanClick("word")
        /\ IF inp = "none" THEN Refuse("word", "NoInput")
           ELSE IF inp = "missing" THEN Refuse("word", "InputMissing")
           ELSE IF out = NoTarget THEN Refuse("word", "NoOutput")
           ELSE IF j_fs[<<out, 0>>] # "absent" /\ ~overwrite /\ ~yes
           THEN UNCHANGED jobVars
           ELSE StartThread("word", out, WordRunSteps)
        /\ UNCHANGED notJobs

\* A statement that touches no file completes.
JobLocal ==
    \E p \in Pages :
        /\ AtStmt(p, {"build", "check", "close"})
        /\ j_pc' = [j_pc EXCEPT ![p] = @ + 1]
        /\ UNCHANGED <<j_pages, j_source, j_btn, j_progress, j_dialog, j_steps, j_target,
                       j_signals, j_queue, j_fs, j_open, j_outdir>>
        /\ UNCHANGED notJobs

\* mkdir(parents=True, exist_ok=True) of the output folder completes.
JobMkdir ==
    \E p \in Pages :
        /\ AtStmt(p, {"mkdir"})
        /\ j_outdir' = TRUE
        /\ j_pc' = [j_pc EXCEPT ![p] = @ + 1]
        /\ UNCHANGED <<j_pages, j_source, j_btn, j_progress, j_dialog, j_steps, j_target,
                       j_signals, j_queue, j_fs, j_open>>
        /\ UNCHANGED notJobs

\* The output file is opened for writing: created, or truncated.
JobOpen ==
    \E p \in Pages :
        /\ AtStmt(p, {"open", "save_open"})
        /\ j_fs' = [j_fs EXCEPT ![StmtFile(p)] = "partial"]
        /\ j_open' = j_open \cup {<<p, StmtFile(p)>>}
        /\ j_pc' = [j_pc EXCEPT ![p] = @ + 1]
        /\ UNCHANGED <<j_pages, j_source, j_btn, j_progress, j_dialog, j_steps, j_target,
                       j_signals, j_queue, j_outdir>>
        /\ UNCHANGED notJobs

\* The output file is written to its end and closed.
JobWrite ==
    \E p \in Pages :
        /\ AtStmt(p, {"write", "save_write"})
        /\ j_fs' = [j_fs EXCEPT ![StmtFile(p)] = "full"]
        /\ j_open' = j_open \ {<<p, StmtFile(p)>>}
        /\ j_pc' = [j_pc EXCEPT ![p] = @ + 1]
        /\ UNCHANGED <<j_pages, j_source, j_btn, j_progress, j_dialog, j_steps, j_target,
                       j_signals, j_queue, j_outdir>>
        /\ UNCHANGED notJobs

\* The events a thread leaves for the GUI thread when run returns after
\* its last statement: the thread's own finished signal.
AfterStmt(p) ==
    IF j_pc[p] = Len(j_steps[p]) THEN <<<<p, "finished">>>> ELSE <<>>

\* self.finished_signal.emit(...)
JobEmitFinished ==
    \E p \in Pages :
        /\ AtStmt(p, {"emit"})
        /\ j_signals' = [j_signals EXCEPT ![p] = Append(@, "finished")]
        /\ j_queue' = j_queue \o <<<<p, "finished_signal">>>> \o AfterStmt(p)
        /\ j_pc' = [j_pc EXCEPT ![p] = @ + 1]
        /\ UNCHANGED <<j_pages, j_source, j_btn, j_progress, j_dialog, j_steps, j_target, j_fs,
                       j_open, j_outdir>>
        /\ UNCHANGED notJobs

\* The file a failed write leaves behind.  The with block of the run closes
\* the file as far as it was written; what a library call leaves of the
\* file it was writing is its own business: the partial file, or no file.
LeftByFailedWrite(kind) ==
    IF kind = "write" THEN {"partial"} ELSE {"partial", "absent"}

\* A statement raises: except Exception as e: self.error_signal.emit(str(e));
\* run returns.
JobRaise ==
    \E p \in Pages :
        /\ AtStmt(p, {"build", "check", "mkdir", "open", "write", "save_open",
                      "save_write", "close", "raise"})
        /\ IF Stmt(p)[1] \in {"write", "save_write"}
           THEN /\ \E left \in LeftByFailedWrite(Stmt(p)[1]) :
                       j_fs' = [j_fs EXCEPT ![StmtFile(p)] = left]
                /\ j_open' = j_open \ {<<p, StmtFile(p)>>}
           ELSE UNCHANGED <<j_fs, j_open>>
        /\ j_signals' = [j_signals EXCEPT ![p] = Append(@, "error")]
        /\ j_queue' = j_queue \o <<<<p, "error_signal">>, <<p, "finished">>>>
        /\ j_pc' = [j_pc EXCEPT ![p] = Returned(p)]
        /\ UNCHANGED <<j_pages, j_source, j_btn, j_progress, j_dialog, j_steps, j_target,
                       j_outdir>>
        /\ UNCHANGED notJobs

\* on_finished(out): QMessageBox.information
JobOnFinished ==
    /\ j_queue # <<>>
    /\ Head(j_queue)[2] = "finished_signal"
    /\ j_queue' = Tail(j_queue)
    /\ j_dialog' = <<Head(j_queue)[1], "finished">>
    /\ UNCHANGED <<j_pages, j_source, j_btn, j_progress, j_pc, j_steps, j_target, j_signals,
                   j_fs, j_open, j_outdir>>
    /\ UNCHANGED notJobs

\* on_error(msg): QMessageBox.critical
JobOnError ==
    /\ j_queue # <<>>
    /\ Head(j_queue)[2] = "error_signal"
    /\ j_queue' = Tail(j_queue)
    /\ j_dialog' = <<Head(j_queue)[1], "error">>
    /\ UNCHANGED <<j_pages, j_source, j_btn, j_progress, j_pc, j_steps, j_target, j_signals,
                   j_fs, j_open, j_outdir>>
    /\ UNCHANGED notJobs

\* on_thread_done: self.progress.hide(); the button is enabled again.
\* Nothing reads the finished thread any more.
JobOnThreadDone ==
    /\ j_queue # <<>>
    /\ Head(j_queue)[2] = "finished"
    /\ LET p == Head(j_queue)[1]
       IN  /\ j_progress' = [j_progress EXCEPT ![p] = FALSE]
           /\ j_btn' = [j_btn EXCEPT ![p] = TRUE]
           /\ j_pc' = [j_pc EXCEPT ![p] = 0]
           /\ j_steps' = [j_steps EXCEPT ![p] = <<>>]
           /\ j_target' = [j_target EXCEPT ![p] = NoTarget]
           /\ j_signals' = [j_signals EXCEPT ![p] = <<>>]
           /\ j_source' = [j_source EXCEPT ![p] = Elsewhere]
    /\ j_queue' = Tail(j_queue)
    /\ UNCHANGED <<j_pages, j_dialog, j_fs, j_open, j_outdir>>
    /\ UNCHANGED notJobs

\* The user closes the message box on the screen.
JobCloseDialog ==
    /\ j_dialog # <<>>
    /\ j_dialog' = <<>>
    /\ UNCHANGED <<j_pages, j_source, j_btn, j_progress, j_pc, j_steps, j_target, j_signals,
                   j_queue, j_fs, j_open, j_outdir>>
    /\ UNCHANGED notJobs

NextJobs ==
    \/ OnMerge
    \/ OnSplit
    \/ OnCompress
    \/ OnEncrypt
    \/ OnConvertImage
    \/ OnConvertPpt
    \/ OnConvertWord
    \/ JobLocal
    \/ JobMkdir
    \/ JobOpen
    \/ JobWrite
    \/ JobEmitFinished
    \/ JobRaise
    \/ JobOnFinished
    \/ JobOnError
    \/ JobOnThreadDone
    \/ JobCloseDialog

\* The seven operation pages, their threads and the files they write.
SpecJobs == InitJobs /\ [][NextJobs]_vars

\* A statement of a thread's run completes or raises.
ThreadStep ==
    \/ JobLocal
    \/ JobMkdir
    \/ JobOpen
    \/ JobWrite
    \/ JobEmitFinished
    \/ JobRaise

\* The GUI thread's event loop delivers the event at the head of its queue.
EventLoopStep ==
    \/ JobOnFinished
    \/ JobOnError
    \/ JobOnThreadDone

\* The same, every started thread being scheduled until run returns (each
\* of its statements ends) and the event loop delivering every queued
\* event.
SpecJobsFair ==
    /\ InitJobs
    /\ [][NextJobs]_vars
    /\ WF_vars(ThreadStep)
    /\ WF_vars(EventLoopStep)

\* The pages whose thread writes one output file at the path the user set.
SinglePages == {"merge", "compress", "encrypt", "ppt", "word"}

\* The windows as constructed, the user working on two pages side by side.
InitRace ==
    /\ j_pages \in {PS \in SUBSET SinglePages : Cardinality(PS) = 2}
    /\ j_source = [p \in Pages |-> Elsewhere]
    /\ j_btn = [p \in Pages |-> TRUE]
    /\ j_progress = [p \in Pages |-> FALSE]
    /\ j_dialog = <<>>
    /\ j_pc = [p \in Pages |-> 0]
    /\ j_steps = [p \in Pages |-> <<>>]
    /\ j_target = [p \in Pages |-> NoTarget]
    /\ j_signals = [p \in Pages |-> <<>>]
    /\ j_queue = <<>>
    /\ j_fs \in [AllFiles -> {"absent", "old"}]
    /\ \A f \in AllFiles : f[2] # 0 => j_fs[f] = "absent"
    /\ j_open = {}
    /\ j_outdir \in BOOLEAN
    \* the split thread and the merge page are not run
    /\ sp_pc = "off"
    /\ sp_source = 0
    /\ pages_per_part = 1
    /\ total = 0
    /\ start = 0
    /\ sp_i = 0
    /\ part = 0
    /\ writer = <<>>
    /\ sp_dir = FALSE
    /\ split_files = <<>>
    /\ sp_written = <<>>
    /\ sp_signals = <<>>
    /\ list_widget = <<>>
    /\ currentRow = -1
    /\ output_edit = ""
    /\ merge_btn = TRUE
    /\ open_btn = FALSE
    /\ progress = FALSE
    /\ m_dialog = "none"
    /\ m_pc = "off"
    /\ m_inputs = <<>>
    /\ m_output = ""
    /\ m_k = 0
    /\ m_writer = <<>>
    /\ m_written = <<>>
    /\ m_fs = <<>>
    /\ m_signals = <<>>
    /\ m_queue = <<>>
    /\ w_pc = "off"
    /\ w_via = "gui"
    /\ w_inp = "none"
    /\ w_exists = FALSE
    /\ w_allow = FALSE
    /\ w_start = <<>>
    /\ w_end = <<>>
    /\ w_count = 0
    /\ w_args = <<>>
    /\ w_handed = <<>>
    /\ w_out = ""
    /\ w_dir = FALSE
    /\ w_opens = 0
    /\ w_closes = 0
    /\ w_calls = 0
    /\ w_exc = ""
    /\ w_reports = <<>>
    /\ im_pc = "off"
    /\ im_mode = "pages"
    /\ im_fmt = "png"
    /\ im_dpi = 72
    /\ im_doc = <<>>
    /\ im_dir = FALSE
    /\ im_mat = <<>>
    /\ im_i = 0
    /\ im_pix = <<>>
    /\ im_out = <<>>
    /\ im_files = <<>>
    /\ im_saved = <<>>
    /\ images = <<>>
    /\ widths = <<>>
    /\ heights = <<>>
    /\ max_w = 0
    /\ total_h = 0
    /\ canvas = <<>>
    /\ y = 0
    /\ im_k = 0
    /\ im_signals = <<>>
    /\ pp_pc = "off"
    /\ pp_doc = <<>>
    /\ pp_dir = FALSE
    /\ slide_w = 0
    /\ slide_h = 0
    /\ pp_i = 0
    /\ img_w = 0
    /\ img_h = 0
    /\ pp_slides = <<>>
    /\ pp_file = <<>>
    /\ pp_signals = <<>>
    /\ c_pc = "off"
    /\ c_run = 0
    /\ c_docs = <<>>
    /\ c_writer = <<>>
    /\ c_k = 0
    /\ c_signals = <<>>
    /\ e_pc = "off"
    /\ e_source = <<>>
    /\ e_password = ""
    /\ e_writer = <<>>
    /\ e_k = 0
    /\ e_out = <<>>
    /\ e_signals = <<>>
    /\ e_tried = ""
    /\ e_access = <<>>

NextRace ==
    \/ OnMerge
    \/ OnCompress
    \/ OnEncrypt
    \/ OnConvertPpt
    \/ OnConvertWord
    \/ JobLocal
    \/ JobMkdir
    \/ JobOpen
    \/ JobWrite
    \/ JobEmitFinished
    \/ JobRaise
    \/ JobOnFinished
    \/ JobOnError
    \/ JobOnThreadDone
    \/ JobCloseDialog

\* Two pages used at the same time: their threads run concurrently.
SpecRace == InitRace /\ [][NextRace]_vars

\* ------------------------------------------------------ word conversion

\* Largest page index a caller gives.
MaxIndex == 2
\* Largest page count of a source converted to Word.
MaxWordPages == 2

\* Optional[int]: None, or a number.
None == <<>>
Some(v) == <<v>>

\* The values a caller can give for start and end: a QSpinBox with minimum
\* 0 always holds a number; an argparse option may be left out.
CallerValues(via) ==
    {Some(v) : v \in 0..MaxIndex} \cup (IF via = "cli" THEN {None} ELSE {})

\* value if value != 0 else None
SpinToOptional(v) == IF v = 0 THEN None ELSE Some(v)

\* start or 0
OrZero(x) == IF x = None \/ x = Some(0) THEN 0 ELSE x[1]

\* convert_pdf_to_docx: the start and end of its cv.convert call, the
\* defaults of the call without start and end being start = 0, end = None.
HandedRange(args) ==
    IF args[1] = None /\ args[2] = None THEN <<0, None>>
    ELSE <<OrZero(args[1]), args[2]>>

InitWord ==
    /\ w_pc = "caller"
    /\ w_via \in {"gui", "cli"}
    /\ w_inp \in Inputs
    /\ w_exists \in BOOLEAN
    /\ w_allow \in BOOLEAN
    /\ w_start \in CallerValues(w_via)
    /\ w_end \in CallerValues(w_via)
    /\ w_count \in 1..MaxWordPages
    /\ w_args = <<>>
    /\ w_handed = <<>>
    /\ w_out = ""
    /\ w_dir \in BOOLEAN
    /\ w_opens = 0
    /\ w_closes = 0
    /\ w_calls = 0
    /\ w_exc = ""
    /\ w_reports = <<>>
    /\ sp_pc = "off"
    /\ sp_source = 0
    /\ pages_per_part = 1
    /\ total = 0
    /\ start = 0
    /\ sp_i = 0
    /\ part = 0
    /\ writer = <<>>
    /\ sp_dir = FALSE
    /\ split_files = <<>>
    /\ sp_written = <<>>
    /\ sp_signals = <<>>
    /\ list_widget = <<>>
    /\ currentRow = -1
    /\ output_edit = ""
    /\ merge_btn = TRUE
    /\ open_btn = FALSE
    /\ progress = FALSE
    /\ m_dialog = "none"
    /\ m_pc = "off"
    /\ m_inputs = <<>>
    /\ m_output = ""
    /\ m_k = 0
    /\ m_writer = <<>>
    /\ m_written = <<>>
    /\ m_fs = <<>>
    /\ m_signals = <<>>
    /\ m_queue = <<>>
    /\ j_pages = {}
    /\ j_source = <<>>
    /\ j_btn = <<>>
    /\ j_progress = <<>>
    /\ j_dialog = <<>>
    /\ j_pc = <<>>
    /\ j_steps = <<>>
    /\ j_target = <<>>
    /\ j_signals = <<>>
    /\ j_queue = <<>>
    /\ j_fs = <<>>
    /\ j_open = {}
    /\ j_outdir = FALSE
    /\ im_pc = "off"
    /\ im_mode = "pages"
    /\ im_fmt = "png"
    /\ im_dpi = 72
    /\ im_doc = <<>>
    /\ im_dir = FALSE
    /\ im_mat = <<>>
    /\ im_i = 0
    /\ im_pix = <<>>
    /\ im_out = <<>>
    /\ im_files = <<>>
    /\ im_saved = <<>>
    /\ images = <<>>
    /\ widths = <<>>
    /\ heights = <<>>
    /\ max_w = 0
    /\ total_h = 0
    /\ canvas = <<>>
    /\ y = 0
    /\ im_k = 0
    /\ im_signals = <<>>
    /\ pp_pc = "off"
    /\ pp_doc = <<>>
    /\ pp_dir = FALSE
    /\ slide_w = 0
    /\ slide_h = 0
    /\ pp_i = 0
    /\ img_w = 0
    /\ img_h = 0
    /\ pp_slides = <<>>
    /\ pp_file = <<>>
    /\ pp_signals = <<>>
    /\ c_pc = "off"
    /\ c_run = 0
    /\ c_docs = <<>>
    /\ c_writer = <<>>
    /\ c_k = 0
    /\ c_signals = <<>>
    /\ e_pc = "off"
    /\ e_source = <<>>
    /\ e_password = ""
    /\ e_writer = <<>>
    /\ e_k = 0
    /\ e_out = <<>>
    /\ e_signals = <<>>
    /\ e_tried = ""
    /\ e_access = <<>>

\* PdfToWordPage.on_convert up to self.thread.start()
WordOnConvert ==
    /\ w_pc = "caller"
    /\ w_via = "gui"
    /\ IF w_inp # "file" \/ (w_exists /\ ~w_allow)
       THEN /\ w_pc' = "done"
            /\ w_out' = "refused"
            /\ UNCHANGED w_args
       ELSE /\ w_pc' = "convert"
            /\ w_args' = <<SpinToOptional(w_start[1]), SpinToOptional(w_end[1])>>
            /\ UNCHANGED w_out
    /\ UNCHANGED <<w_via, w_inp, w_exists, w_allow, w_start, w_end, w_count,
                 w_handed, w_dir, w_opens, w_closes, w_calls, w_exc,
                 w_reports>>
    /\ UNCHANGED notWord

\* A mutant of ExitCode: the output is tested before the input.
ExitCodeOutputFirst(inp, exists, allow) ==
    IF exists /\ ~allow THEN 2
    ELSE IF inp # "file" THEN 1
    ELSE 0

\* The tests of main() before its call of convert_pdf_to_docx: the code it
\* returns, 0 when it goes on to the call.
ExitCode(inp, exists, allow) ==
    IF inp # "file" THEN 1
    ELSE IF exists /\ ~allow THEN 2
    ELSE 0

\* "exit 0" .. "exit 3"
Exit(n) ==
    CASE n = 0 -> "exit 0" [] n = 1 -> "exit 1" [] n = 2 -> "exit 2"
      [] OTHER -> "exit 3"

\* main() of the command line up to its call of convert_pdf_to_docx
WordMain ==
    /\ w_pc = "caller"
    /\ w_via = "cli"
    /\ LET code == ExitCode(w_inp, w_exists, w_allow)
       IN  IF code # 0
           THEN /\ w_pc' = "done"
                /\ w_out' = Exit(code)
                /\ w_reports' = Append(w_reports, "stderr")
                /\ UNCHANGED w_args
           ELSE /\ w_pc' = "convert"
                /\ w_args' = <<w_start, w_end>>
                /\ UNCHANGED <<w_out, w_reports>>
    /\ UNCHANGED <<w_via, w_inp, w_exists, w_allow, w_start, w_end, w_count,
                 w_handed, w_dir, w_opens, w_closes, w_calls, w_exc>>
    /\ UNCHANGED notWord

\* The input is deleted by someone else after the caller has tested it.
WordInputRemoved ==
    /\ w_pc = "convert"
    /\ w_inp = "file"
    /\ w_inp' = "missing"
    /\ UNCHANGED <<w_pc, w_via, w_exists, w_allow, w_start, w_end, w_count,
                 w_args, w_handed, w_out, w_dir, w_opens, w_closes, w_calls,
                 w_exc, w_reports>>
    /\ UNCHANGED notWord

\* convert_pdf_to_docx: if not pdf.is_file(): raise FileNotFoundError
WordConvert ==
    /\ w_pc = "convert"
    /\ IF w_inp # "file"
       THEN /\ w_exc' = "FileNotFoundError"
            /\ w_pc' = "raised"
       ELSE /\ w_pc' = "mkdir"
            /\ UNCHANGED w_exc
    /\ UNCHANGED <<w_via, w_inp, w_exists, w_allow, w_start, w_end, w_count,
                 w_args, w_handed, w_out, w_dir, w_opens, w_closes, w_calls,
                 w_reports>>
    /\ UNCHANGED notWord

\* if out.parent and not out.parent.exists(): out.parent.mkdir(...)
WordMkdir ==
    /\ w_pc = "mkdir"
    /\ \/ /\ w_dir' = TRUE
          /\ w_pc' = "open"
          /\ UNCHANGED w_exc
       \/ /\ ~w_dir
          /\ w_exc' = "OSError"
          /\ w_pc' = "raised"
          /\ UNCHANGED w_dir
    /\ UNCHANGED <<w_via, w_inp, w_exists, w_allow, w_start, w_end, w_count,
                 w_args, w_handed, w_out, w_opens, w_closes, w_calls,
                 w_reports>>
    /\ UNCHANGED notWord

\* cv = Converter(str(pdf)): a converter, or an exception of the
\* collaborator
WordOpen ==
    /\ w_pc = "open"
    /\ \/ /\ w_opens' = w_opens + 1
          /\ w_pc' = "call"
          /\ UNCHANGED w_exc
       \/ /\ w_exc' = "CollabError"
          /\ w_pc' = "raised"
          /\ UNCHANGED w_opens
    /\ UNCHANGED <<w_via, w_inp, w_exists, w_allow, w_start, w_end, w_count,
                 w_args, w_handed, w_out, w_dir, w_closes, w_calls,
                 w_reports>>
    /\ UNCHANGED notWord

\* try: cv.convert(str(out)) or cv.convert(str(out), start=..., end=...)
WordCall ==
    /\ w_pc = "call"
    /\ w_handed' = HandedRange(w_args)
    /\ w_calls' = w_calls + 1
    /\ w_pc' = "collab"
    /\ UNCHANGED <<w_via, w_inp, w_exists, w_allow, w_start, w_end, w_count,
                 w_args, w_out, w_dir, w_opens, w_closes, w_exc, w_reports>>
    /\ UNCHANGED notWord

\* A mutant of AfterRaise: a failed call is made once more.
AfterRaiseRetry(calls) == IF calls < 2 THEN "call" ELSE "close"

\* Where convert_pdf_to_docx goes on when cv.convert has raised: to finally.
AfterRaise(calls) == "close"

\* cv.convert returns or raises
WordCollab ==
    /\ w_pc = "collab"
    /\ \/ /\ w_exc' = ""
          /\ w_pc' = "close"
       \/ /\ w_exc' = "CollabError"
          /\ w_pc' = AfterRaise(w_calls)
    /\ UNCHANGED <<w_via, w_inp, w_exists, w_allow, w_start, w_end, w_count,
                 w_args, w_handed, w_out, w_dir, w_opens, w_closes, w_calls,
                 w_reports>>
    /\ UNCHANGED notWord

\* A mutant of ClosesAfter: close is called after the call, not in finally.
ClosesOnReturnOnly(exc) == exc = ""

\* finally: cv.close() runs whether cv.convert returned or raised
ClosesAfter(exc) == TRUE

\* finally: cv.close(); the call returns, or the exception goes on to the
\* caller
WordClose ==
    /\ w_pc = "close"
    /\ w_closes' = IF ClosesAfter(w_exc) THEN w_closes + 1 ELSE w_closes
    /\ w_pc' = IF w_exc = "" THEN "returned" ELSE "raised"
    /\ UNCHANGED <<w_via, w_inp, w_exists, w_allow, w_start, w_end, w_count,
                 w_args, w_handed, w_out, w_dir, w_opens, w_calls, w_exc,
                 w_reports>>
    /\ UNCHANGED notWord

\* The caller after convert_pdf_to_docx: ConvertThread.run emits
\* finished_signal or error_signal; main() writes the output path to stdout
\* and returns 0, or the message to stderr and returns 3.
WordReturn ==
    /\ w_pc \in {"returned", "raised"}
    /\ w_pc' = "done"
    /\ LET raised == w_pc = "raised"
       IN  IF w_via = "gui"
           THEN /\ w_out' = IF raised THEN "error_signal" ELSE "finished_signal"
                /\ w_reports' = Append(w_reports, w_out')
           ELSE /\ w_out' = IF raised THEN Exit(3) ELSE Exit(0)
                /\ w_reports' = Append(w_reports,
                                       IF raised THEN "stderr" ELSE "stdout")
    /\ UNCHANGED <<w_via, w_inp, w_exists, w_allow, w_start, w_end, w_count,
                 w_args, w_handed, w_dir, w_opens, w_closes, w_calls, w_exc>>
    /\ UNCHANGED notWord

NextWord ==
    \/ WordOnConvert
    \/ WordMain
    \/ WordInputRemoved
    \/ WordConvert
    \/ WordMkdir
    \/ WordOpen
    \/ WordCall
    \/ WordCollab
    \/ WordClose
    \/ WordReturn

\* One conversion to Word from either caller, on every range.
SpecWord == InitWord /\ [][NextWord]_vars

\* ----------------------------------------------------------- image export

\* Largest page count of a source exported to images.
MaxImgPages == 3

\* The limits and the default of dpi_spin.
DpiMin == 72
DpiMax == 600
DpiDefault == 150

\* The user space units per inch: zoom = self.dpi / 72.0
PointsPerInch == 72

\* The values of dpi_spin a request is started with.
DpiValues == {DpiMin, DpiDefault, DpiMax}

\* The media boxes <<w, h>>, in points, of the pages of the sources.
Boxes == {<<612, 792>>, <<595, 842>>, <<100, 30>>}

\* The entries of format_combo.
Formats == {"png", "jpg", "jpeg"}

\* zoom = self.dpi / 72.0, as the fraction <<numerator, denominator>>
Zoom(dpi) == <<dpi, PointsPerInch>>

\* A mutant of Matrix: the y axis is not scaled.
MatrixXOnly(a, b) == <<a, <<1, 1>>>>

\* fitz.Matrix(a, b): the scaling by a along x and by b along y
Matrix(a, b) == <<a, b>>

\* page.get_pixmap(matrix=mat): the page's box scaled by the matrix, on the
\* smallest pixel grid that holds it.
GetPixmap(box, mat) ==
    <<CeilDiv(box[1] * mat[1][1], mat[1][2]),
      CeilDiv(box[2] * mat[2][1], mat[2][2])>>

\* A mutant of PageFileName: the page number is left out of the name.
PageFileNameNoIndex(i, fmt) == <<"_page", Format03d(1), fmt>>

\* f"{Path(self.pdf_path).stem}_page{i+1:03d}.{self.fmt}"
PageFileName(i, fmt) == <<"_page", Format03d(i + 1), fmt>>

\* The name of the one image of mode "single": single_name, or the stem of
\* the source, with the extension of the format.
SingleFileName(fmt) == <<"single", <<>>, fmt>>

RECURSIVE MaxOf(_)
\* max(widths)
MaxOf(q) ==
    IF Len(q) = 1 THEN q[1]
    ELSE LET m == MaxOf(Tail(q)) IN IF Head(q) > m THEN Head(q) ELSE m

RECURSIVE SumOf(_)
\* sum(heights)
SumOf(q) == IF q = <<>> THEN 0 ELSE Head(q) + SumOf(Tail(q))

\* A mutant of PasteX: the image is put flush right.
PasteXFlushRight(mw, w) == mw - w

\* x = (max_w - img.width) // 2
PasteX(mw, w) == (mw - w) \div 2

\* The thread as constructed by on_convert, on every source.
InitImage ==
    /\ im_pc = "mkdir"
    /\ im_mode \in {"pages", "single"}
    /\ im_fmt \in Formats
    /\ im_dpi \in DpiValues
    /\ im_doc \in SeqsOf(Boxes, 0, MaxImgPages)
    /\ im_dir \in BOOLEAN
    /\ im_mat = <<>>
    /\ im_i = 0
    /\ im_pix = <<>>
    /\ im_out = <<>>
    /\ im_files = <<>>
    /\ im_saved = <<>>
    /\ images = <<>>
    /\ widths = <<>>
    /\ heights = <<>>
    /\ max_w = 0
    /\ total_h = 0
    /\ canvas = <<>>
    /\ y = 0
    /\ im_k = 0
    /\ im_signals = <<>>
    /\ sp_pc = "off"
    /\ sp_source = 0
    /\ pages_per_part = 1
    /\ total = 0
    /\ start = 0
    /\ sp_i = 0
    /\ part = 0
    /\ writer = <<>>
    /\ sp_dir = FALSE
    /\ split_files = <<>>
    /\ sp_written = <<>>
    /\ sp_signals = <<>>
    /\ list_widget = <<>>
    /\ currentRow = -1
    /\ output_edit = ""
    /\ merge_btn = TRUE
    /\ open_btn = FALSE
    /\ progress = FALSE
    /\ m_dialog = "none"
    /\ m_pc = "off"
    /\ m_inputs = <<>>
    /\ m_output = ""
    /\ m_k = 0
    /\ m_writer = <<>>
    /\ m_written = <<>>
    /\ m_fs = <<>>
    /\ m_signals = <<>>
    /\ m_queue = <<>>
    /\ j_pages = {}
    /\ j_source = <<>>
    /\ j_btn = <<>>
    /\ j_progress = <<>>
    /\ j_dialog = <<>>
    /\ j_pc = <<>>
    /\ j_steps = <<>>
    /\ j_target = <<>>
    /\ j_signals = <<>>
    /\ j_queue = <<>>
    /\ j_fs = <<>>
    /\ j_open = {}
    /\ j_outdir = FALSE
    /\ w_pc = "off"
    /\ w_via = "gui"
    /\ w_inp = "none"
    /\ w_exists = FALSE
    /\ w_allow = FALSE
    /\ w_start = <<>>
    /\ w_end = <<>>
    /\ w_count = 0
    /\ w_args = <<>>
    /\ w_handed = <<>>
    /\ w_out = ""
    /\ w_dir = FALSE
    /\ w_opens = 0
    /\ w_closes = 0
    /\ w_calls = 0
    /\ w_exc = ""
    /\ w_reports = <<>>
    /\ pp_pc = "off"
    /\ pp_doc = <<>>
    /\ pp_dir = FALSE
    /\ slide_w = 0
    /\ slide_h = 0
    /\ pp_i = 0
    /\ img_w = 0
    /\ img_h = 0
    /\ pp_slides = <<>>
    /\ pp_file = <<>>
    /\ pp_signals = <<>>
    /\ c_pc = "off"
    /\ c_run = 0
    /\ c_docs = <<>>
    /\ c_writer = <<>>
    /\ c_k = 0
    /\ c_signals = <<>>
    /\ e_pc = "off"
    /\ e_source = <<>>
    /\ e_password = ""
    /\ e_writer = <<>>
    /\ e_k = 0
    /\ e_out = <<>>
    /\ e_signals = <<>>
    /\ e_tried = ""
    /\ e_access = <<>>

\* out_dir.mkdir(parents=True, exist_ok=True)
ImageMkdir ==
    /\ im_pc = "mkdir"
    /\ im_dir' = TRUE
    /\ im_pc' = "open"
    /\ UNCHANGED <<im_mode, im_fmt, im_dpi, im_doc, im_mat, im_i, im_pix,
                 im_out, im_files, im_saved, images, widths, heights, max_w,
                 total_h, canvas, y, im_k, im_signals>>
    /\ UNCHANGED notImage

\* doc = fitz.open(...); zoom; mat = fitz.Matrix(zoom, zoom); the branch on
\* self.mode
ImageOpen ==
    /\ im_pc = "open"
    /\ im_mat' = Matrix(Zoom(im_dpi), Zoom(im_dpi))
    /\ im_i' = 0
    /\ im_pc' = IF im_mode = "pages" THEN "pages_for" ELSE "stitch_for"
    /\ UNCHANGED <<im_mode, im_fmt, im_dpi, im_doc, im_dir, im_pix, im_out,
                 im_files, im_saved, images, widths, heights, max_w,
                 total_h, canvas, y, im_k, im_signals>>
    /\ UNCHANGED notImage

\* mode "pages", the loop body up to the save: load_page(i), get_pixmap, out
ImagePagesRender ==
    /\ im_pc = "pages_for"
    /\ im_i < Len(im_doc)
    /\ im_pix' = GetPixmap(im_doc[im_i + 1], im_mat)
    /\ im_out' = PageFileName(im_i, im_fmt)
    /\ im_pc' = "pages_save"
    /\ UNCHANGED <<im_mode, im_fmt, im_dpi, im_doc, im_dir, im_mat, im_i,
                 im_files, im_saved, images, widths, heights, max_w,
                 total_h, canvas, y, im_k, im_signals>>
    /\ UNCHANGED notImage

\* pix.save(str(out)) or img.save(out, ...); the next i
ImagePagesSave ==
    /\ im_pc = "pages_save"
    /\ im_files' = (im_out :> [page |-> im_i, size |-> im_pix]) @@ im_files
    /\ im_saved' = Append(im_saved, <<im_out, im_i>>)
    /\ im_i' = im_i + 1
    /\ im_pc' = "pages_for"
    /\ UNCHANGED <<im_mode, im_fmt, im_dpi, im_doc, im_dir, im_mat, im_pix,
                 im_out, images, widths, heights, max_w, total_h, canvas, y,
                 im_k, im_signals>>
    /\ UNCHANGED notImage

\* the range is exhausted: self.finished_signal.emit(str(out_dir)); return
ImagePagesEmit ==
    /\ im_pc = "pages_for"
    /\ im_i >= Len(im_doc)
    /\ im_signals' = Append(im_signals, "finished")
    /\ im_pc' = "done"
    /\ UNCHANGED <<im_mode, im_fmt, im_dpi, im_doc, im_dir, im_mat, im_i,
                 im_pix, im_out, im_files, im_saved, images, widths,
                 heights, max_w, total_h, canvas, y, im_k>>
    /\ UNCHANGED notImage

\* mode "single", the first loop: render page i, append the image, its
\* width and its height
ImageStitchRender ==
    /\ im_pc = "stitch_for"
    /\ im_i < Len(im_doc)
    /\ LET pix == GetPixmap(im_doc[im_i + 1], im_mat)
       IN  /\ im_pix' = pix
           /\ images' = Append(images, pix)
           /\ widths' = Append(widths, pix[1])
           /\ heights' = Append(heights, pix[2])
    /\ im_i' = im_i + 1
    /\ UNCHANGED <<im_pc, im_mode, im_fmt, im_dpi, im_doc, im_dir, im_mat,
                 im_out, im_files, im_saved, max_w, total_h, canvas, y,
                 im_k, im_signals>>
    /\ UNCHANGED notImage

\* the range is exhausted: if not images: raise RuntimeError(...), caught by
\* the except clause; else max_w, total_h, the white canvas, y = 0
ImageStitchCheck ==
    /\ im_pc = "stitch_for"
    /\ im_i >= Len(im_doc)
    /\ IF images = <<>>
       THEN /\ im_signals' = Append(im_signals, "error")
            /\ im_pc' = "done"
            /\ UNCHANGED <<max_w, total_h, canvas, y, im_k>>
       ELSE /\ max_w' = MaxOf(widths)
            /\ total_h' = SumOf(heights)
            /\ canvas' = [size |-> <<MaxOf(widths), SumOf(heights)>>,
                          pasted |-> <<>>]
            /\ y' = 0
            /\ im_k' = 1
            /\ im_pc' = "paste"
            /\ UNCHANGED im_signals
    /\ UNCHANGED <<im_mode, im_fmt, im_dpi, im_doc, im_dir, im_mat, im_i,
                 im_pix, im_out, im_files, im_saved, images, widths, heights>>
    /\ UNCHANGED notImage

\* for img in images: x = ...; canvas.paste(img, (x, y)); y += img.height
ImagePaste ==
    /\ im_pc = "paste"
    /\ im_k <= Len(images)
    /\ LET img == images[im_k]
           x == PasteX(max_w, img[1])
       IN  /\ canvas' = [canvas EXCEPT !.pasted = Append(@, <<img, x, y>>)]
           /\ y' = y + img[2]
    /\ im_k' = im_k + 1
    /\ UNCHANGED <<im_pc, im_mode, im_fmt, im_dpi, im_doc, im_dir, im_mat,
                 im_i, im_pix, im_out, im_files, im_saved, images, widths,
                 heights, max_w, total_h, im_signals>>
    /\ UNCHANGED notImage

\* the images are exhausted: name, out
ImagePasteDone ==
    /\ im_pc = "paste"
    /\ im_k > Len(images)
    /\ im_out' = SingleFileName(im_fmt)
    /\ im_pc' = "save"
    /\ UNCHANGED <<im_mode, im_fmt, im_dpi, im_doc, im_dir, im_mat, im_i,
                 im_pix, im_files, im_saved, images, widths, heights, max_w,
                 total_h, canvas, y, im_k, im_signals>>
    /\ UNCHANGED notImage

\* canvas.save(out, format=...)
ImageSave ==
    /\ im_pc = "save"
    /\ im_files' = (im_out :> canvas) @@ im_files
    /\ im_saved' = Append(im_saved, <<im_out, 0>>)
    /\ im_pc' = "emit"
    /\ UNCHANGED <<im_mode, im_fmt, im_dpi, im_doc, im_dir, im_mat, im_i,
                 im_pix, im_out, images, widths, heights, max_w, total_h,
                 canvas, y, im_k, im_signals>>
    /\ UNCHANGED notImage

\* self.finished_signal.emit(str(out))
ImageEmitFinished ==
    /\ im_pc = "emit"
    /\ im_signals' = Append(im_signals, "finished")
    /\ im_pc' = "done"
    /\ UNCHANGED <<im_mode, im_fmt, im_dpi, im_doc, im_dir, im_mat, im_i,
                 im_pix, im_out, im_files, im_saved, images, widths,
                 heights, max_w, total_h, canvas, y, im_k>>
    /\ UNCHANGED notImage

\* except Exception as e: self.error_signal.emit(str(e)).  The statements
\* that can raise: mkdir, fitz.open, the rendering of a page, the saves.
ImageRaise ==
    /\ \/ im_pc \in {"mkdir", "open", "pages_save", "save"}
       \/ im_pc \in {"pages_for", "stitch_for"} /\ im_i < Len(im_doc)
    /\ im_signals' = Append(im_signals, "error")
    /\ im_pc' = "done"
    /\ UNCHANGED <<im_mode, im_fmt, im_dpi, im_doc, im_dir, im_mat, im_i,
                 im_pix, im_out, im_files, im_saved, images, widths,
                 heights, max_w, total_h, canvas, y, im_k>>
    /\ UNCHANGED notImage

NextImage ==
    \/ ImageMkdir
    \/ ImageOpen
    \/ ImagePagesRender
    \/ ImagePagesSave
    \/ ImagePagesEmit
    \/ ImageStitchRender
    \/ ImageStitchCheck
    \/ ImagePaste
    \/ ImagePasteDone
    \/ ImageSave
    \/ ImageEmitFinished
    \/ ImageRaise

\* PdfToImageThread.run on every source, mode, format and resolution.
SpecImage == InitImage /\ [][NextImage]_vars

\* ----------------------------------------------------------- slide export

\* Largest page count of a source exported to slides.
MaxPptPages == 2
\* Largest width and height of a picture, in the unit of the slide sizes.
MaxImg == 2

\* The sizes <<slide_width, slide_height>> of a presentation; the one of
\* Presentation() is 4 : 3.
SlideSizes == {<<4, 3>>, <<12, 9>>, <<5, 5>>, <<3, 7>>}

\* The sizes <<pic.width, pic.height>> of the pictures of the pages.
ImgSizes == {<<a, b>> : a \in 1..MaxImg, b \in 1..MaxImg}

\* A mutant of MinFrac: the larger of the two fractions.
MaxFrac(a, b) == IF a[1] * b[2] >= b[1] * a[2] THEN a ELSE b

\* min(a, b) of two fractions <<numerator, denominator>>
MinFrac(a, b) == IF a[1] * b[2] <= b[1] * a[2] THEN a ELSE b

\* scale = min(slide_w / img_w, slide_h / img_h)
Scale(sw, sh, iw, ih) == MinFrac(<<sw, iw>>, <<sh, ih>>)

\* int(v * scale), scale a fraction held as a float: the product is cut to
\* a whole number; where the exact product is a whole number the float can
\* lie just below it and is then cut to the number before.
IntOfProduct(v, sc) ==
    LET n == v * sc[1]
        q == n \div sc[2]
    IN  IF n % sc[2] = 0 /\ q >= 1 THEN {q, q - 1} ELSE {q}

\* int(d / 2)
IntOfHalf(d) == IF d >= 0 THEN d \div 2 ELSE -((-d) \div 2)

\* The thread as constructed by on_convert, on every source.
InitPpt ==
    /\ pp_pc = "mkdir"
    /\ pp_doc \in SeqsOf(ImgSizes, 0, MaxPptPages)
    /\ pp_dir \in BOOLEAN
    /\ \E sz \in SlideSizes : slide_w = sz[1] /\ slide_h = sz[2]
    /\ pp_i = 0
    /\ img_w = 0
    /\ img_h = 0
    /\ pp_slides = <<>>
    /\ pp_file = <<>>
    /\ pp_signals = <<>>
    /\ sp_pc = "off"
    /\ sp_source = 0
    /\ pages_per_part = 1
    /\ total = 0
    /\ start = 0
    /\ sp_i = 0
    /\ part = 0
    /\ writer = <<>>
    /\ sp_dir = FALSE
    /\ split_files = <<>>
    /\ sp_written = <<>>
    /\ sp_signals = <<>>
    /\ list_widget = <<>>
    /\ currentRow = -1
    /\ output_edit = ""
    /\ merge_btn = TRUE
    /\ open_btn = FALSE
    /\ progress = FALSE
    /\ m_dialog = "none"
    /\ m_pc = "off"
    /\ m_inputs = <<>>
    /\ m_output = ""
    /\ m_k = 0
    /\ m_writer = <<>>
    /\ m_written = <<>>
    /\ m_fs = <<>>
    /\ m_signals = <<>>
    /\ m_queue = <<>>
    /\ j_pages = {}
    /\ j_source = <<>>
    /\ j_btn = <<>>
    /\ j_progress = <<>>
    /\ j_dialog = <<>>
    /\ j_pc = <<>>
    /\ j_steps = <<>>
    /\ j_target = <<>>
    /\ j_signals = <<>>
    /\ j_queue = <<>>
    /\ j_fs = <<>>
    /\ j_open = {}
    /\ j_outdir = FALSE
    /\ w_pc = "off"
    /\ w_via = "gui"
    /\ w_inp = "none"
    /\ w_exists = FALSE
    /\ w_allow = FALSE
    /\ w_start = <<>>
    /\ w_end = <<>>
    /\ w_count = 0
    /\ w_args = <<>>
    /\ w_handed = <<>>
    /\ w_out = ""
    /\ w_dir = FALSE
    /\ w_opens = 0
    /\ w_closes = 0
    /\ w_calls = 0
    /\ w_exc = ""
    /\ w_reports = <<>>
    /\ im_pc = "off"
    /\ im_mode = "pages"
    /\ im_fmt = "png"
    /\ im_dpi = 72
    /\ im_doc = <<>>
    /\ im_dir = FALSE
    /\ im_mat = <<>>
    /\ im_i = 0
    /\ im_pix = <<>>
    /\ im_out = <<>>
    /\ im_files = <<>>
    /\ im_saved = <<>>
    /\ images = <<>>
    /\ widths = <<>>
    /\ heights = <<>>
    /\ max_w = 0
    /\ total_h = 0
    /\ canvas = <<>>
    /\ y = 0
    /\ im_k = 0
    /\ im_signals = <<>>
    /\ c_pc = "off"
    /\ c_run = 0
    /\ c_docs = <<>>
    /\ c_writer = <<>>
    /\ c_k = 0
    /\ c_signals = <<>>
    /\ e_pc = "off"
    /\ e_source = <<>>
    /\ e_password = ""
    /\ e_writer = <<>>
    /\ e_k = 0
    /\ e_out = <<>>
    /\ e_signals = <<>>
    /\ e_tried = ""
    /\ e_access = <<>>

\* out.parent.mkdir(parents=True, exist_ok=True)
PptMkdir ==
    /\ pp_pc = "mkdir"
    /\ pp_dir' = TRUE
    /\ pp_pc' = "open"
    /\ UNCHANGED <<pp_doc, slide_w, slide_h, pp_i, img_w, img_h, pp_slides,
                 pp_file, pp_signals>>
    /\ UNCHANGED notPpt

\* doc = fitz.open(...); zoom, mat; prs = Presentation(); slide_w, slide_h;
\* the temporary directory
PptOpen ==
    /\ pp_pc = "open"
    /\ pp_i' = 0
    /\ pp_pc' = "for"
    /\ UNCHANGED <<pp_doc, pp_dir, slide_w, slide_h, img_w, img_h, pp_slides,
                 pp_file, pp_signals>>
    /\ UNCHANGED notPpt

\* A mutant of AddSlide: the slide is put in front of the others.
AddSlideInFront(slides, s) == <<s>> \o slides

\* prs.slides.add_slide(blank_layout): the slide becomes the last one
AddSlide(slides, s) == Append(slides, s)

\* the loop body up to add_slide: page i is rendered and saved in the
\* temporary directory, a slide of the blank layout (no shapes) is added
PptAddSlide ==
    /\ pp_pc = "for"
    /\ pp_i < Len(pp_doc)
    /\ pp_slides' = AddSlide(pp_slides, <<>>)
    /\ pp_pc' = "picture"
    /\ UNCHANGED <<pp_doc, pp_dir, slide_w, slide_h, pp_i, img_w, img_h,
                 pp_file, pp_signals>>
    /\ UNCHANGED notPpt

\* pic = slide.shapes.add_picture(str(png), 0, 0); img_w, img_h: the
\* picture of page i, in its own size, is added to the slide just added
PptAddPicture ==
    /\ pp_pc = "picture"
    /\ LET n == Len(pp_slides)
           pic == [page |-> pp_i + 1, left |-> 0, top |-> 0,
                   width |-> pp_doc[pp_i + 1][1],
                   height |-> pp_doc[pp_i + 1][2], scale |-> <<1, 1>>]
       IN  pp_slides' = [pp_slides EXCEPT ![n] = Append(@, pic)]
    /\ img_w' = pp_doc[pp_i + 1][1]
    /\ img_h' = pp_doc[pp_i + 1][2]
    /\ pp_pc' = "fit"
    /\ UNCHANGED <<pp_doc, pp_dir, slide_w, slide_h, pp_i, pp_file,
                 pp_signals>>
    /\ UNCHANGED notPpt

\* scale, new_w, new_h, left, top; pic.left, pic.top, pic.width, pic.height
PptFit ==
    /\ pp_pc = "fit"
    /\ LET scale == Scale(slide_w, slide_h, img_w, img_h)
           n == Len(pp_slides)
           k == Len(pp_slides[n])
       IN  \E new_w \in IntOfProduct(img_w, scale),
              new_h \in IntOfProduct(img_h, scale) :
               pp_slides' = [pp_slides EXCEPT ![n][k] =
                   [@ EXCEPT !.left = IntOfHalf(slide_w - new_w),
                             !.top = IntOfHalf(slide_h - new_h),
                             !.width = new_w, !.height = new_h,
                             !.scale = scale]]
    /\ pp_i' = pp_i + 1
    /\ pp_pc' = "for"
    /\ UNCHANGED <<pp_doc, pp_dir, slide_w, slide_h, img_w, img_h, pp_file,
                 pp_signals>>
    /\ UNCHANGED notPpt

\* the range is exhausted: prs.save(str(out))
PptSave ==
    /\ pp_pc = "for"
    /\ pp_i >= Len(pp_doc)
    /\ pp_file' = <<pp_slides>>
    /\ pp_pc' = "emit"
    /\ UNCHANGED <<pp_doc, pp_dir, slide_w, slide_h, pp_i, img_w, img_h,
                 pp_slides, pp_signals>>
    /\ UNCHANGED notPpt

\* self.finished_signal.emit(str(out))
PptEmitFinished ==
    /\ pp_pc = "emit"
    /\ pp_signals' = Append(pp_signals, "finished")
    /\ pp_pc' = "done"
    /\ UNCHANGED <<pp_doc, pp_dir, slide_w, slide_h, pp_i, img_w, img_h,
                 pp_slides, pp_file>>
    /\ UNCHANGED notPpt

\* except Exception as e: self.error_signal.emit(str(e)).  The statements
\* that can raise: mkdir, fitz.open, the rendering of a page, add_picture,
\* prs.save.
PptRaise ==
    /\ pp_pc \in {"mkdir", "open", "for", "picture"}
    /\ pp_signals' = Append(pp_signals, "error")
    /\ pp_pc' = "done"
    /\ UNCHANGED <<pp_doc, pp_dir, slide_w, slide_h, pp_i, img_w, img_h,
                 pp_slides, pp_file>>
    /\ UNCHANGED notPpt

NextPpt ==
    \/ PptMkdir
    \/ PptOpen
    \/ PptAddSlide
    \/ PptAddPicture
    \/ PptFit
    \/ PptSave
    \/ PptEmitFinished
    \/ PptRaise

\* PdfToPptThread.run on every source and slide size.
SpecPpt == InitPpt /\ [][NextPpt]_vars

\* ------------------------------------------------------------ compression

\* Largest page count of a source that is compressed.
MaxCPages == 2
\* How many times in a row the output is compressed again.
MaxRuns == 2

\* What a page shows.
Contents == {"a", "b"}

\* The compression levels of a content stream: 0 none, 9 the strongest.
Levels == {0, 9}

\* A page object: what it shows and how its content stream is encoded.
PageObjects == [content : Contents, level : Levels]

\* A parsed file of the pages ps: one indirect object per page, numbered
\* from 1, and the page tree naming them in order.
DocOf(ps) == [objects |-> [i \in 1..Len(ps) |-> ps[i]],
              kids |-> [i \in 1..Len(ps) |-> i]]

\* writer.pages / reader.pages: the page objects the page tree names, in
\* its order.
PagesOf(doc) == [k \in 1..Len(doc.kids) |-> doc.objects[doc.kids[k]]]

\* What the pages of a document show, in order.
PageSeq(doc) == [k \in 1..Len(doc.kids) |-> doc.objects[doc.kids[k]].content]

\* page.compress_content_streams(level=9) on the page object id
CompressContentStreams(doc, id) ==
    [doc EXCEPT !.objects[id].level = 9]

\* The first of the objects of doc identical to object id.
FirstIdentical(doc, id) ==
    CHOOSE j \in DOMAIN doc.objects :
        /\ doc.objects[j] = doc.objects[id]
        /\ \A l \in DOMAIN doc.objects :
               doc.objects[l] = doc.objects[id] => j <= l

\* The sequence without the entries that occurred before.
RECURSIVE Distinct(_)
Distinct(q) ==
    IF q = <<>> THEN <<>>
    ELSE LET front == Distinct(SubSeq(q, 1, Len(q) - 1))
             x == q[Len(q)]
         IN  IF \E n \in 1..Len(front) : front[n] = x THEN front
             ELSE Append(front, x)

\* A mutant of CompressIdenticalObjects: identical pages are also dropped
\* from the page tree.
DropIdenticalPages(doc) ==
    LET kids == Distinct([k \in 1..Len(doc.kids) |->
                             FirstIdentical(doc, doc.kids[k])])
        kept == {kids[k] : k \in 1..Len(kids)}
    IN  [objects |-> [i \in kept |-> doc.objects[i]], kids |-> kids]

\* writer.compress_identical_objects(remove_identicals=True,
\* remove_orphans=True): identical objects become the first of them, the
\* page tree names the first instead; objects nothing names are removed.
CompressIdenticalObjects(doc) ==
    LET kids == [k \in 1..Len(doc.kids) |-> FirstIdentical(doc, doc.kids[k])]
        kept == {kids[k] : k \in 1..Len(kids)}
    IN  [objects |-> [i \in kept |-> doc.objects[i]], kids |-> kids]

\* The thread as constructed by on_compress, on every source.
InitCompress ==
    /\ c_pc = "clone"
    /\ c_run = 1
    /\ c_docs \in {<<DocOf(ps)>> : ps \in SeqsOf(PageObjects, 0, MaxCPages)}
    /\ c_writer = <<>>
    /\ c_k = 0
    /\ c_signals = <<>>
    /\ sp_pc = "off"
    /\ sp_source = 0
    /\ pages_per_part = 1
    /\ total = 0
    /\ start = 0
    /\ sp_i = 0
    /\ part = 0
    /\ writer = <<>>
    /\ sp_dir = FALSE
    /\ split_files = <<>>
    /\ sp_written = <<>>
    /\ sp_signals = <<>>
    /\ list_widget = <<>>
    /\ currentRow = -1
    /\ output_edit = ""
    /\ merge_btn = TRUE
    /\ open_btn = FALSE
    /\ progress = FALSE
    /\ m_dialog = "none"
    /\ m_pc = "off"
    /\ m_inputs = <<>>
    /\ m_output = ""
    /\ m_k = 0
    /\ m_writer = <<>>
    /\ m_written = <<>>
    /\ m_fs = <<>>
    /\ m_signals = <<>>
    /\ m_queue = <<>>
    /\ j_pages = {}
    /\ j_source = <<>>
    /\ j_btn = <<>>
    /\ j_progress = <<>>
    /\ j_dialog = <<>>
    /\ j_pc = <<>>
    /\ j_steps = <<>>
    /\ j_target = <<>>
    /\ j_signals = <<>>
    /\ j_queue = <<>>
    /\ j_fs = <<>>
    /\ j_open = {}
    /\ j_outdir = FALSE
    /\ w_pc = "off"
    /\ w_via = "gui"
    /\ w_inp = "none"
    /\ w_exists = FALSE
    /\ w_allow = FALSE
    /\ w_start = <<>>
    /\ w_end = <<>>
    /\ w_count = 0
    /\ w_args = <<>>
    /\ w_handed = <<>>
    /\ w_out = ""
    /\ w_dir = FALSE
    /\ w_opens = 0
    /\ w_closes = 0
    /\ w_calls = 0
    /\ w_exc = ""
    /\ w_reports = <<>>
    /\ im_pc = "off"
    /\ im_mode = "pages"
    /\ im_fmt = "png"
    /\ im_dpi = 72
    /\ im_doc = <<>>
    /\ im_dir = FALSE
    /\ im_mat = <<>>
    /\ im_i = 0
    /\ im_pix = <<>>
    /\ im_out = <<>>
    /\ im_files = <<>>
    /\ im_saved = <<>>
    /\ images = <<>>
    /\ widths = <<>>
    /\ heights = <<>>
    /\ max_w = 0
    /\ total_h = 0
    /\ canvas = <<>>
    /\ y = 0
    /\ im_k = 0
    /\ im_signals = <<>>
    /\ pp_pc = "off"
    /\ pp_doc = <<>>
    /\ pp_dir = FALSE
    /\ slide_w = 0
    /\ slide_h = 0
    /\ pp_i = 0
    /\ img_w = 0
    /\ img_h = 0
    /\ pp_slides = <<>>
    /\ pp_file = <<>>
    /\ pp_signals = <<>>
    /\ e_pc = "off"
    /\ e_source = <<>>
    /\ e_password = ""
    /\ e_writer = <<>>
    /\ e_k = 0
    /\ e_out = <<>>
    /\ e_signals = <<>>
    /\ e_tried = ""
    /\ e_access = <<>>

\* writer = PdfWriter(clone_from=self.pdf_path)
CompressClone ==
    /\ c_pc = "clone"
    /\ c_writer' = c_docs[c_run]
    /\ c_k' = 0
    /\ c_pc' = "pages"
    /\ UNCHANGED <<c_run, c_docs, c_signals>>
    /\ UNCHANGED notCompress

\* for page in writer.pages: page.compress_content_streams(level=9)
CompressPage ==
    /\ c_pc = "pages"
    /\ c_k < Len(c_writer.kids)
    /\ c_writer' = CompressContentStreams(c_writer, c_writer.kids[c_k + 1])
    /\ c_k' = c_k + 1
    /\ UNCHANGED <<c_pc, c_run, c_docs, c_signals>>
    /\ UNCHANGED notCompress

\* the pages are exhausted: writer.compress_identical_objects(...)
CompressIdentical ==
    /\ c_pc = "pages"
    /\ c_k >= Len(c_writer.kids)
    /\ c_writer' = CompressIdenticalObjects(c_writer)
    /\ c_pc' = "write"
    /\ UNCHANGED <<c_run, c_docs, c_k, c_signals>>
    /\ UNCHANGED notCompress

\* out.parent.mkdir(...); with out.open("wb") as f: writer.write(f)
CompressWrite ==
    /\ c_pc = "write"
    /\ c_docs' = Append(c_docs, c_writer)
    /\ c_pc' = "emit"
    /\ UNCHANGED <<c_run, c_writer, c_k, c_signals>>
    /\ UNCHANGED notCompress

\* self.finished_signal.emit(str(out))
CompressEmitFinished ==
    /\ c_pc = "emit"
    /\ c_signals' = Append(c_signals, "finished")
    /\ c_pc' = "done"
    /\ UNCHANGED <<c_run, c_docs, c_writer, c_k>>
    /\ UNCHANGED notCompress

\* except Exception as e: self.error_signal.emit(str(e))
CompressRaise ==
    /\ c_pc \in {"clone", "pages", "write"}
    /\ c_signals' = Append(c_signals, "error")
    /\ c_pc' = "done"
    /\ UNCHANGED <<c_run, c_docs, c_writer, c_k>>
    /\ UNCHANGED notCompress

\* on_file_selected with the file just written, then on_compress: a new
\* thread on the output of the run before
CompressAgain ==
    /\ c_pc = "done"
    /\ c_run < MaxRuns
    /\ Len(c_docs) = c_run + 1
    /\ c_run' = c_run + 1
    /\ c_writer' = <<>>
    /\ c_k' = 0
    /\ c_pc' = "clone"
    /\ UNCHANGED <<c_docs, c_signals>>
    /\ UNCHANGED notCompress

NextCompress ==
    \/ CompressClone
    \/ CompressPage
    \/ CompressIdentical
    \/ CompressWrite
    \/ CompressEmitFinished
    \/ CompressRaise
    \/ CompressAgain

\* CompressThread.run on every source, and again on its output.
SpecCompress == InitCompress /\ [][NextCompress]_vars

\* -------------------------------------------------------------- encryption

\* Largest page count of a source that is encrypted.
MaxEPages == 2

\* A mutant of EncryptWith: the password is stripped of its blanks.
EncryptStripped(w, pwd) ==
    LET p == IF pwd = " " THEN "" ELSE pwd
    IN  [w EXCEPT !.user = <<p>>, !.owner = <<p>>]

\* writer.encrypt(pwd, algorithm="AES-256"): pwd is the user password; no
\* owner password is given, so the owner password is the user password.
EncryptWith(w, pwd) == [w EXCEPT !.user = <<pwd>>, !.owner = <<pwd>>]

\* Whether a document opens with the password q; no password is "".
Opens(doc, q) ==
    \/ doc.user = <<>>
    \/ q = doc.user[1]
    \/ q = doc.owner[1]

\* The thread as constructed by on_encrypt (the password is not empty), on
\* every source.
InitEncrypt ==
    /\ e_pc = "read"
    /\ e_source \in SeqsOf(Contents, 0, MaxEPages)
    /\ e_password \in Passwords \ {""}
    /\ e_writer = <<>>
    /\ e_k = 0
    /\ e_out = <<>>
    /\ e_signals = <<>>
    /\ e_tried = ""
    /\ e_access = <<>>
    /\ sp_pc = "off"
    /\ sp_source = 0
    /\ pages_per_part = 1
    /\ total = 0
    /\ start = 0
    /\ sp_i = 0
    /\ part = 0
    /\ writer = <<>>
    /\ sp_dir = FALSE
    /\ split_files = <<>>
    /\ sp_written = <<>>
    /\ sp_signals = <<>>
    /\ list_widget = <<>>
    /\ currentRow = -1
    /\ output_edit = ""
    /\ merge_btn = TRUE
    /\ open_btn = FALSE
    /\ progress = FALSE
    /\ m_dialog = "none"
    /\ m_pc = "off"
    /\ m_inputs = <<>>
    /\ m_output = ""
    /\ m_k = 0
    /\ m_writer = <<>>
    /\ m_written = <<>>
    /\ m_fs = <<>>
    /\ m_signals = <<>>
    /\ m_queue = <<>>
    /\ j_pages = {}
    /\ j_source = <<>>
    /\ j_btn = <<>>
    /\ j_progress = <<>>
    /\ j_dialog = <<>>
    /\ j_pc = <<>>
    /\ j_steps = <<>>
    /\ j_target = <<>>
    /\ j_signals = <<>>
    /\ j_queue = <<>>
    /\ j_fs = <<>>
    /\ j_open = {}
    /\ j_outdir = FALSE
    /\ w_pc = "off"
    /\ w_via = "gui"
    /\ w_inp = "none"
    /\ w_exists = FALSE
    /\ w_allow = FALSE
    /\ w_start = <<>>
    /\ w_end = <<>>
    /\ w_count = 0
    /\ w_args = <<>>
    /\ w_handed = <<>>
    /\ w_out = ""
    /\ w_dir = FALSE
    /\ w_opens = 0
    /\ w_closes = 0
    /\ w_calls = 0
    /\ w_exc = ""
    /\ w_reports = <<>>
    /\ im_pc = "off"
    /\ im_mode = "pages"
    /\ im_fmt = "png"
    /\ im_dpi = 72
    /\ im_doc = <<>>
    /\ im_dir = FALSE
    /\ im_mat = <<>>
    /\ im_i = 0
    /\ im_pix = <<>>
    /\ im_out = <<>>
    /\ im_files = <<>>
    /\ im_saved = <<>>
    /\ images = <<>>
    /\ widths = <<>>
    /\ heights = <<>>
    /\ max_w = 0
    /\ total_h = 0
    /\ canvas = <<>>
    /\ y = 0
    /\ im_k = 0
    /\ im_signals = <<>>
    /\ pp_pc = "off"
    /\ pp_doc = <<>>
    /\ pp_dir = FALSE
    /\ slide_w = 0
    /\ slide_h = 0
    /\ pp_i = 0
    /\ img_w = 0
    /\ img_h = 0
    /\ pp_slides = <<>>
    /\ pp_file = <<>>
    /\ pp_signals = <<>>
    /\ c_pc = "off"
    /\ c_run = 0
    /\ c_docs = <<>>
    /\ c_writer = <<>>
    /\ c_k = 0
    /\ c_signals = <<>>

\* reader = PdfReader(self.pdf_path); writer = PdfWriter()
EncryptRead ==
    /\ e_pc = "read"
    /\ e_writer' = [pages |-> <<>>, user |-> <<>>, owner |-> <<>>]
    /\ e_k' = 0
    /\ e_pc' = "pages"
    /\ UNCHANGED <<e_source, e_password, e_out, e_signals, e_tried, e_access>>
    /\ UNCHANGED notEncrypt

\* for page in reader.pages: writer.add_page(page)
EncryptAddPage ==
    /\ e_pc = "pages"
    /\ e_k < Len(e_source)
    /\ e_writer' = [e_writer EXCEPT !.pages = Append(@, e_source[e_k + 1])]
    /\ e_k' = e_k + 1
    /\ UNCHANGED <<e_pc, e_source, e_password, e_out, e_signals, e_tried,
                 e_access>>
    /\ UNCHANGED notEncrypt

\* the pages are exhausted: writer.encrypt(self.password, ...)
EncryptSetPassword ==
    /\ e_pc = "pages"
    /\ e_k >= Len(e_source)
    /\ e_writer' = EncryptWith(e_writer, e_password)
    /\ e_pc' = "write"
    /\ UNCHANGED <<e_source, e_password, e_k, e_out, e_signals, e_tried,
                 e_access>>
    /\ UNCHANGED notEncrypt

\* out.parent.mkdir(...); with out.open("wb") as f: writer.write(f)
EncryptWrite ==
    /\ e_pc = "write"
    /\ e_out' = <<e_writer>>
    /\ e_pc' = "emit"
    /\ UNCHANGED <<e_source, e_password, e_writer, e_k, e_signals, e_tried,
                 e_access>>
    /\ UNCHANGED notEncrypt

\* self.finished_signal.emit(str(out))
EncryptEmitFinished ==
    /\ e_pc = "emit"
    /\ e_signals' = Append(e_signals, "finished")
    /\ e_pc' = "done"
    /\ UNCHANGED <<e_source, e_password, e_writer, e_k, e_out, e_tried,
                 e_access>>
    /\ UNCHANGED notEncrypt

\* except Exception as e: self.error_signal.emit(str(e))
EncryptRaise ==
    /\ e_pc \in {"read", "pages", "write"}
    /\ e_signals' = Append(e_signals, "error")
    /\ e_pc' = "done"
    /\ UNCHANGED <<e_source, e_password, e_writer, e_k, e_out, e_tried,
                 e_access>>
    /\ UNCHANGED notEncrypt

\* on_open: the output is opened in the viewer, which is given a password
\* (none is "")
EncryptReopen ==
    /\ e_pc = "done"
    /\ e_out # <<>>
    /\ \E q \in Passwords :
           /\ e_tried' = q
           /\ e_access' = IF Opens(e_out[1], q) THEN <<e_out[1].pages>>
                          ELSE <<>>
    /\ e_pc' = "opened"
    /\ UNCHANGED <<e_source, e_password, e_writer, e_k, e_out, e_signals>>
    /\ UNCHANGED notEncrypt

NextEncrypt ==
    \/ EncryptRead
    \/ EncryptAddPage
    \/ EncryptSetPassword
    \/ EncryptWrite
    \/ EncryptEmitFinished
    \/ EncryptRaise
    \/ EncryptReopen

\* EncryptThread.run on every source and password, then the opening of the
\* output.
SpecEncrypt == InitEncrypt /\ [][NextEncrypt]_vars

\* ------------------------------------------------------------ split claims

SplitSucceeded == sp_pc = "done" /\ sp_signals = <<"finished">>

\* C1: a split of an n-page source with group size k that succeeds has
\* written exactly ceil(n/k) documents; the j-th holds the source pages
\* (j-1)*k .. min(j*k, n)-1 in source order; the page counts sum to n, each
\* is at most k, none is empty and only the last may be smaller than k; the
\* files on disk are these documents, all closed.
C1_SplitPartition ==
    SplitSucceeded =>
        LET n == sp_source
            k == pages_per_part
            cnt == CeilDiv(n, k)
        IN  /\ Len(sp_written) = cnt
            /\ Cardinality(DOMAIN split_files) = cnt
            /\ \A j \in 1..cnt :
                   /\ sp_written[j] = PageRange((j - 1) * k, Min(j * k, n))
                   /\ Len(sp_written[j]) >= 1
                   /\ Len(sp_written[j]) <= k
            /\ \A j \in 1..(cnt - 1) : Len(sp_written[j]) = k
            /\ SumLens(sp_written) = n
            /\ \A f \in DOMAIN split_files :
                   /\ split_files[f].closed
                   /\ \E j \in 1..cnt : split_files[f].pages = sp_written[j]

\* C1 witness: a finished split whose last part is smaller than the others.
C1_Witness ==
    /\ SplitSucceeded
    /\ sp_source = 7
    /\ pages_per_part = 3
    /\ sp_written = <<PageRange(0, 3), PageRange(3, 6), PageRange(6, 7)>>

\* C2: the files of a finished split are named by the 1-based group index,
\* consecutive from 001, zero-padded to 3 digits; the names are pairwise
\* distinct (as many files as documents written, each holding its own
\* group); 25 pages with group size 10 give part001, part002, part003 with
\* 10, 10 and 5 pages.
C2_PartNames ==
    SplitSucceeded =>
        LET cnt == CeilDiv(sp_source, pages_per_part)
        IN  /\ DOMAIN split_files = {PartName(j) : j \in 1..cnt}
            /\ \A j \in 1..cnt :
                   /\ Len(PartName(j)) = 3
                   /\ DigitsValue(PartName(j)) = j
                   /\ split_files[PartName(j)].pages = sp_written[j]
            /\ Cardinality(DOMAIN split_files) = Len(sp_written)
            /\ (sp_source = 25 /\ pages_per_part = 10) =>
                   split_files =
                       (<<0, 0, 1>> :> [pages |-> PageRange(0, 10), closed |-> TRUE])
                    @@ (<<0, 0, 2>> :> [pages |-> PageRange(10, 20), closed |-> TRUE])
                    @@ (<<0, 0, 3>> :> [pages |-> PageRange(20, 25), closed |-> TRUE])

\* C2 witness: the 25-page source split by 10 has finished with three files.
C2_Witness ==
    /\ SplitSucceeded
    /\ sp_source = 25
    /\ pages_per_part = 10
    /\ DOMAIN split_files = {<<0, 0, 1>>, <<0, 0, 2>>, <<0, 0, 3>>}

\* ------------------------------------------------------------ merge claims

MergeSucceeded == m_pc = "done" /\ m_signals = <<"finished">>

RECURSIVE PagesBefore(_, _)
\* The number of pages of the first j-1 documents of a list.
PagesBefore(docs, j) ==
    IF j <= 1 THEN 0 ELSE PagesBefore(docs, j - 1) + PageCount(docs[j - 1])

\* C3: the document a finished merge has written holds, for every input j
\* in the listed order, that input's pages in its own order right after the
\* pages of the inputs before it: its page count is the sum of the inputs'
\* page counts; 3 pages then 5 pages give 8 pages whose page 4 is the first
\* page of the second document.
C3_MergeConcatenates ==
    MergeSucceeded =>
        /\ m_fs[m_output] = "full"
        /\ Len(m_written) = TotalPages(m_inputs)
        /\ \A j \in 1..Len(m_inputs) :
               \A x \in 0..(PageCount(m_inputs[j]) - 1) :
                   m_written[PagesBefore(m_inputs, j) + x + 1] = <<m_inputs[j], x>>
        /\ m_inputs = <<3, 5>> =>
               /\ Len(m_written) = 8
               /\ m_written[4] = <<5, 0>>
               /\ m_written[3] = <<3, 2>>

\* C3 witness: the merge of a 3-page and a 5-page document has finished.
C3_Witness ==
    /\ MergeSucceeded
    /\ m_inputs = <<3, 5>>
    /\ Len(m_written) = 8

\* on_merge refuses the request with the warning for too few inputs.
MergeRefusedTooFew ==
    /\ m_dialog' = "TooFewInputs"
    /\ UNCHANGED <<m_pc, m_inputs, m_output, m_fs, m_queue, m_signals,
                   progress, merge_btn, open_btn>>

\* on_merge accepts the request: a thread is started on the listed inputs.
MergeAccepted ==
    /\ m_pc' = "start"
    /\ m_inputs' = list_widget
    /\ m_output' = output_edit
    /\ m_fs' = m_fs

Swapped(l, a, b) ==
    [x \in 1..Len(l) |-> IF x = a THEN l[b] ELSE IF x = b THEN l[a] ELSE l[x]]

\* The list l without its row a (1-based), the others in their order.
Without(l, a) ==
    SubSeq(l, 1, a - 1) \o SubSeq(l, a + 1, Len(l))

\* C27: move-up exchanges the selected row with the one before it and
\* move-down with the one after it, nothing else changing and the selection
\* following the entry; move-up on the first row and move-down on the last
\* row are not carried out; a move-down right after a move-up would give the
\* list as it was; remove deletes the selected row only; add appends; the
\* list changes in no other way; and the inputs of a started MergeThread are
\* the rows of the list from first to last at the click, whatever is done
\* to the list afterwards.
C27_ListOrder ==
    /\ [][MergeOnUp =>
            /\ list_widget' = Swapped(list_widget, currentRow, currentRow + 1)
            /\ currentRow' = currentRow - 1
            /\ currentRow' < Len(list_widget') - 1
            /\ Swapped(list_widget', currentRow' + 1, currentRow' + 2)
                   = list_widget]_vars
    /\ [][MergeOnDown =>
            /\ list_widget' =
                   Swapped(list_widget, currentRow + 1, currentRow + 2)
            /\ currentRow' = currentRow + 1]_vars
    /\ [][MergeOnRemove =>
            list_widget' = Without(list_widget, currentRow + 1)]_vars
    /\ [][list_widget' # list_widget =>
            \/ MergeOnUp
            \/ MergeOnDown
            \/ MergeOnRemove
            \/ /\ Len(list_widget') > Len(list_widget)
               /\ SubSeq(list_widget', 1, Len(list_widget)) = list_widget]_vars
    /\ [](/\ currentRow <= 0 => ~ENABLED MergeOnUp
          /\ currentRow = Len(list_widget) - 1 => ~ENABLED MergeOnDown)
    /\ [][(m_pc = "off" /\ m_pc' = "start") =>
            m_inputs' = list_widget /\ list_widget' = list_widget]_vars
    /\ [][(m_pc = "start" /\ m_pc' = "start") => m_inputs' = m_inputs]_vars

\* A thread was started on a list of three rows and the row selected then
\* was moved up afterwards: the thread's inputs are the rows as they were.
C27_Witness ==
    /\ m_pc = "start"
    /\ m_inputs = <<0, 2, 0>>
    /\ list_widget = <<2, 0, 0>>
    /\ currentRow = 0

\* ------------------------------------------------------------- job claims

\* The thread of page p is between its start and the return of run.
InFlight(p) == j_pc[p] >= 1 /\ j_pc[p] <= Len(j_steps[p])

\* The thread of page p has returned from run and is not yet forgotten.
HasReturned(p) == j_pc[p] >= 1 /\ j_pc[p] = Returned(p)

\* The files the run of page p opens for writing.
RequestFiles(p) ==
    {FileOf(p, j_target[p], j_steps[p][i][2]) :
        i \in {x \in 1..Len(j_steps[p]) : j_steps[p][x][1] \in {"open", "save_open"}}}

Emitted(p, sig) == \E i \in 1..Len(j_signals[p]) : j_signals[p][i] = sig

\* C5, as the specification states it: no two threads in flight have the
\* same output path.
C5_AsStated ==
    \A p \in Pages, q \in Pages :
        (p # q /\ InFlight(p) /\ InFlight(q) /\ j_target[p] \in Files)
            => j_target[p] # j_target[q]

\* C6: a run emits at most one signal at any time, none of its signals while
\* it has emitted and goes on, and a run that has returned has emitted
\* exactly one: finished_signal or error_signal.
C6_OneTerminalSignal ==
    \A p \in Pages :
        /\ Len(j_signals[p]) <= 1
        /\ HasReturned(p) => Len(j_signals[p]) = 1
        /\ InFlight(p) => j_signals[p] = <<>>

\* A per-page image export of MaxParts pages has returned after its emit.
C6_Witness ==
    /\ HasReturned("image")
    /\ j_steps["image"] = ImageRunSteps("pages", MaxParts)
    /\ j_signals["image"] = <<"finished">>
    /\ j_fs[<<"image", MaxParts>>] = "full"

\* C7, as the specification states it: once finished_signal is emitted every
\* file of the request is fully written and closed, and once error_signal is
\* emitted no file of the request is partially written.
C7_AsStated ==
    \A p \in Pages :
        /\ Emitted(p, "finished") =>
               \A f \in RequestFiles(p) : j_fs[f] = "full" /\ <<p, f>> \notin j_open
        /\ Emitted(p, "error") =>
               \A f \in RequestFiles(p) : j_fs[f] # "partial"

\* C8, as the specification states it: after the error report of a run with
\* one output file the target is absent, holds its previous content or is
\* fully written.
C8_AsStated ==
    \A p \in Pages :
        (HasReturned(p) /\ j_signals[p] = <<"error">> /\ j_target[p] \in Files)
            => j_fs[<<j_target[p], 0>>] \in {"absent", "old", "full"}

\* C9, as the specification states it: a split that fails leaves none of
\* the part files it has written and closed before the failure (the folder
\* held none of them before the run).
C9_AsStated ==
    (sp_pc = "done" /\ sp_signals = <<"error">>) =>
        \A name \in DOMAIN split_files : ~split_files[name].closed

\* What a refused click leaves alone: everything but the message box.
OnlyDialogChanges ==
    UNCHANGED <<j_pages, j_source, j_btn, j_progress, j_pc, j_steps, j_target, j_signals,
                j_queue, j_fs, j_open, j_outdir>>

\* C10: on_encrypt on a selected input file and an empty password shows the
\* EmptyPassword warning and changes nothing else: no thread is started, no
\* file is touched, the button stays enabled and the progress bar hidden;
\* with an empty password no thread is started whatever the other fields
\* are; a non-empty password never gets the EmptyPassword warning.
C10_EmptyPassword ==
    [][\A inp \in Inputs, pwd \in Passwords, out \in Files \cup {NoTarget} :
          OnEncryptWith(inp, pwd, out) =>
              /\ (pwd = "" /\ inp = "file") =>
                     j_dialog' = <<"encrypt", "EmptyPassword">>
              /\ pwd = "" =>
                     /\ OnlyDialogChanges
                     /\ j_btn'["encrypt"] /\ ~j_progress'["encrypt"]
                     /\ j_pc'["encrypt"] = 0
              /\ pwd # "" => j_dialog' # <<"encrypt", "EmptyPassword">>]_vars

\* The EmptyPassword warning is on the screen, the encrypt page as before.
C10_Witness ==
    /\ j_dialog = <<"encrypt", "EmptyPassword">>
    /\ j_pc["encrypt"] = 0
    /\ j_btn["encrypt"]
    /\ ~j_progress["encrypt"]
    /\ j_open = {}

\* The pages whose handler lets the user authorize the overwriting of an
\* existing output (the check box and the question of the word page); a
\* thread of such a page is started on an existing output only with the
\* authorization.
AsksBeforeOverwrite == {"word"}

\* C11, as the specification states it: a thread opens an existing file for
\* writing only when the caller has authorized the overwriting.
C11_AsStated ==
    [][\A p \in Pages :
          (/\ AtStmt(p, {"open", "save_open"})
           /\ j_pc'[p] = j_pc[p] + 1
           /\ j_fs[StmtFile(p)] # "absent")
              => p \in AsksBeforeOverwrite]_vars

\* C12, as the specification states it: a thread that reaches a validation
\* (the is_file test of the source, the test for an empty list of pages) has
\* created nothing before: no folder, no file.
C12_AsStated ==
    \A p \in Pages :
        AtStmt(p, {"check", "raise"}) =>
            \A i \in 1..(j_pc[p] - 1) :
                j_steps[p][i][1] \notin {"mkdir", "open", "save_open"}

\* C13, as the specification states it: while a thread lives, no step
\* changes the file its source is read from.
C13_AsStated ==
    [][\A p \in Pages :
          (j_pc[p] >= 1 /\ j_source[p] \in Files)
              => j_fs'[<<j_source[p], 0>>] = j_fs[<<j_source[p], 0>>]]_vars

\* A stitched image export of a source without pages is running or has
\* returned.
StitchedEmpty ==
    j_pc["image"] >= 1 /\ j_steps["image"] = ImageRunSteps("single", 0)

\* C17: a stitched image export of a source without pages has no statement
\* that writes a file and none that emits finished_signal; it never reports
\* success, changes no file while it lives, and when it has returned it has
\* emitted error_signal exactly once.
C17_NoPages ==
    /\ [](StitchedEmpty =>
            /\ RequestFiles("image") = {}
            /\ \A i \in 1..Len(j_steps["image"]) : j_steps["image"][i][1] # "emit"
            /\ ~Emitted("image", "finished")
            /\ HasReturned("image") => j_signals["image"] = <<"error">>)
    /\ [][StitchedEmpty => UNCHANGED <<j_fs, j_open>>]_vars

\* The export of an empty source has returned with its one error.
C17_Witness ==
    /\ StitchedEmpty
    /\ HasReturned("image")
    /\ j_signals["image"] = <<"error">>
    /\ j_outdir

\* A worker of page p exists: started, and its thread's finished event not
\* yet delivered.
Busy(p) == j_pc[p] # 0

\* C26: on every page, while a worker exists the start button is disabled
\* and the progress bar shown; a worker is started only when the page has
\* none (at most one per page); and every worker, whether it ends with
\* finished_signal or error_signal, is followed by a state with the button
\* enabled and the progress bar hidden.
C26_ButtonCycle ==
    /\ [](\A p \in Pages : Busy(p) => ~j_btn[p] /\ j_progress[p])
    /\ [][\A p \in Pages :
            (j_pc'[p] = 1 /\ j_steps'[p] # j_steps[p]) => ~Busy(p)]_vars
    /\ \A p \in Pages : Busy(p) ~> (~Busy(p) /\ j_btn[p] /\ ~j_progress[p])

\* The compression failed: the error box is on the screen, the thread is
\* gone, the button enabled again and the progress bar hidden.
C26_Witness ==
    /\ j_dialog = <<"compress", "error">>
    /\ ~Busy("compress")
    /\ j_btn["compress"]
    /\ ~j_progress["compress"]
    /\ j_queue = <<>>

\* ------------------------------------------------------------ word claims

\* v clamped to [0, pageCount - 1]
Clamp(v) == IF v < 0 THEN 0 ELSE IF v > w_count - 1 THEN w_count - 1 ELSE v

\* The end a range has: an absent end is the last page.
EndOf(e) == IF e = None THEN w_count - 1 ELSE e[1]

\* C14, as the specification states it: the range of a conversion that
\* proceeds is the caller's range clamped to [0, pageCount - 1] and holds a
\* page (with start > end after clamping the call would have failed with
\* EmptyRange instead).
C14_AsStated ==
    w_pc = "collab" =>
        LET s == Clamp(OrZero(w_args[1]))
            e == Clamp(EndOf(w_args[2]))
        IN  /\ s <= e
            /\ w_handed[1] = s
            /\ EndOf(w_handed[2]) = e

\* C15, as the specification states it: the range handed to cv.convert
\* starts at the caller's start, at 0 when there is none, and has the
\* caller's end, absent only when the caller gave none.
C15_AsStated ==
    w_pc = "collab" =>
        /\ w_handed[1] = OrZero(w_start)
        /\ w_handed[2] = w_end

\* The reports of a failure.
ErrorReports == {"error_signal", "stderr"}

\* C25: within a request cv.convert is called at most once and a converter
\* is opened at most once; the caller reports at most once; a request whose
\* conversion failed has ended with exactly one report, an error; and once
\* the request has ended nothing further happens.
C25_NoRetry ==
    /\ [](/\ w_calls <= 1
          /\ w_opens <= 1
          /\ Len(w_reports) <= 1
          /\ (w_pc = "done" /\ w_exc # "") =>
                 /\ Len(w_reports) = 1
                 /\ w_reports[1] \in ErrorReports)
    /\ [][w_pc # "done"]_vars

\* The collaborator failed in a conversion started from the Word page: one
\* call, one error_signal.
C25_Witness ==
    /\ w_pc = "done"
    /\ w_via = "gui"
    /\ w_exc = "CollabError"
    /\ w_calls = 1
    /\ w_reports = <<"error_signal">>

\* C28: main() tests the input first and returns 1 when it is no file, then
\* returns 2 when the output exists without --overwrite, and calls
\* convert_pdf_to_docx otherwise; with 1 or 2 the converter was never
\* invoked; it returns 3 exactly when the call raised and 0 exactly when it
\* returned; the output path is on stdout exactly when the result is 0,
\* written after the call has returned.
C28_ExitCodes ==
    /\ [][WordMain =>
            /\ w_inp # "file" => w_out' = "exit 1"
            /\ (w_inp = "file" /\ w_exists /\ ~w_allow) => w_out' = "exit 2"
            /\ (w_inp = "file" /\ ~(w_exists /\ ~w_allow)) =>
                   w_pc' = "convert" /\ w_out' = ""]_vars
    /\ [](w_via = "cli" =>
            /\ w_out \in {"exit 1", "exit 2"} =>
                   /\ w_args = <<>>
                   /\ w_opens = 0 /\ w_calls = 0
                   /\ w_reports = <<"stderr">>
            /\ w_out = "exit 3" => w_exc # "" /\ w_reports = <<"stderr">>
            /\ w_out = "exit 0" =>
                   /\ w_exc = ""
                   /\ w_calls = 1 /\ w_closes = 1
                   /\ w_reports = <<"stdout">>
            /\ (w_pc = "done" /\ w_args # <<>>) =>
                   w_out = (IF w_exc = "" THEN "exit 0" ELSE "exit 3")
            /\ (\E n \in 1..Len(w_reports) : w_reports[n] = "stdout") <=>
                   w_out = "exit 0")

\* The input is missing and the output exists without --overwrite: the
\* result is 1.
C28_Witness ==
    /\ w_via = "cli"
    /\ w_pc = "done"
    /\ w_inp = "missing"
    /\ w_exists /\ ~w_allow
    /\ w_out = "exit 1"
    /\ w_calls = 0

\* C29: convert_pdf_to_docx raises FileNotFoundError for a missing input
\* having created no folder and opened no converter; the folder is created
\* only after that test; a converter once opened has been closed exactly
\* once when the function is left, by return or by exception; and the
\* exception of a failed conversion reaches the caller, who reports an
\* error.
C29_ClosedOnce ==
    /\ [][WordConvert =>
            (w_inp # "file" =>
                 /\ w_exc' = "FileNotFoundError"
                 /\ w_pc' = "raised"
                 /\ w_opens = 0
                 /\ w_dir' = w_dir)]_vars
    /\ [][w_dir' # w_dir => w_pc = "mkdir"]_vars
    /\ [](/\ w_exc = "FileNotFoundError" => w_opens = 0 /\ w_calls = 0
          /\ w_closes <= w_opens
          /\ w_pc \in {"returned", "raised", "done"} => w_closes = w_opens
          /\ w_pc = "raised" => w_exc # ""
          /\ w_pc = "returned" => w_exc = ""
          /\ (w_pc = "done" /\ w_exc # "") => w_out \in {"error_signal", "exit 3"})

\* The conversion raised in a run from the command line: the converter was
\* opened once and closed once, and the result is 3.
C29_Witness ==
    /\ w_pc = "done"
    /\ w_via = "cli"
    /\ w_exc = "CollabError"
    /\ w_calls = 1
    /\ w_opens = 1
    /\ w_closes = 1
    /\ w_out = "exit 3"

\* ----------------------------------------------------------- image claims

\* The stitched canvas is complete: all images are pasted.
StitchComposed ==
    /\ im_mode = "single"
    /\ \/ im_pc \in {"save", "emit"}
       \/ im_pc = "done" /\ im_signals = <<"finished">>

\* C16: the stitched canvas of the pages 1..N, N >= 1, is as wide as the
\* widest page image and as high as all of them together; page i is pasted
\* at x_i = floor((width - w_i) / 2), y_i = h_1 + ... + h_(i-1), in page
\* order; every image lies inside the canvas, no two overlap and together
\* they cover the full height; the file saved is this canvas.
C16_StitchGeometry ==
    StitchComposed =>
        LET N == Len(im_doc)
            P == canvas.pasted
            W == canvas.size[1]
            H == canvas.size[2]
            w(i) == P[i][1][1]
            h(i) == P[i][1][2]
            px(i) == P[i][2]
            py(i) == P[i][3]
        IN  /\ N >= 1
            /\ Len(P) = N
            /\ \A i \in 1..N : P[i][1] = GetPixmap(im_doc[i], im_mat)
            /\ \A i \in 1..N : w(i) <= W
            /\ \E i \in 1..N : w(i) = W
            /\ \A i \in 1..N : 2 * px(i) <= W - w(i) /\ W - w(i) <= 2 * px(i) + 1
            /\ py(1) = 0
            /\ \A i \in 1..(N - 1) : py(i + 1) = py(i) + h(i)
            /\ py(N) + h(N) = H
            /\ \A i \in 1..N :
                   /\ 0 <= px(i) /\ px(i) + w(i) <= W
                   /\ 0 <= py(i) /\ py(i) + h(i) <= H
            /\ \A i \in 1..N, j \in 1..N : i < j => py(i) + h(i) <= py(j)
            /\ im_pc \in {"emit", "done"} => im_files[SingleFileName(im_fmt)] = canvas

\* Three pages of different widths are stitched and saved.
C16_Witness ==
    /\ StitchComposed
    /\ im_pc = "done"
    /\ im_doc = <<<<612, 792>>, <<100, 30>>, <<595, 842>>>>
    /\ im_dpi = 150
    /\ canvas.size = <<1275, 3468>>

\* A per-page export has succeeded.
PagesExported ==
    im_mode = "pages" /\ im_pc = "done" /\ im_signals = <<"finished">>

\* C18: a per-page export of an N-page source that succeeds has rendered the
\* pages 0 .. N-1 once each in increasing order and saved N files, page i
\* under the name _page<i+1 as 3 digits>.<fmt> and with its own rendering;
\* the N names are pairwise distinct and are the files of the folder.
C18_PageFiles ==
    PagesExported =>
        LET N == Len(im_doc)
            name(k) == im_saved[k][1]
        IN  /\ Len(im_saved) = N
            /\ \A k \in 1..N :
                   /\ im_saved[k][2] = k - 1
                   /\ name(k)[1] = "_page"
                   /\ Len(name(k)[2]) = 3
                   /\ DigitsValue(name(k)[2]) = k
                   /\ name(k)[3] = im_fmt
                   /\ im_files[name(k)] =
                          [page |-> k - 1, size |-> GetPixmap(im_doc[k], im_mat)]
            /\ \A k \in 1..N, l \in 1..N : k # l => name(k) # name(l)
            /\ DOMAIN im_files = {name(k) : k \in 1..N}
            /\ Cardinality(DOMAIN im_files) = N

\* A source of MaxImgPages pages is exported page by page.
C18_Witness ==
    /\ PagesExported
    /\ Len(im_doc) = MaxImgPages
    /\ Cardinality(DOMAIN im_files) = MaxImgPages

\* p = ceil(a / b), for b > 0
IsCeil(p, a, b) == (p - 1) * b < a /\ a <= p * b

\* The rendering pix of the page with media box b at the thread's dpi is
\* ceil(w * dpi / 72) x ceil(h * dpi / 72).
RenderedAsCeil(pix, b) ==
    /\ IsCeil(pix[1], b[1] * im_dpi, 72)
    /\ IsCeil(pix[2], b[2] * im_dpi, 72)

C20_FitInSlide ==
    \A k \in 1..pp_i :
        LET pic == pp_slides[k][1]
            iw == pp_doc[k][1]
            ih == pp_doc[k][2]
            num == pic.scale[1]
            den == pic.scale[2]
        IN  /\ den > 0
            /\ num * iw <= slide_w * den
            /\ num * ih <= slide_h * den
            /\ num * iw = slide_w * den \/ num * ih = slide_h * den
            /\ pic.width * den <= iw * num /\ iw * num <= (pic.width + 1) * den
            /\ pic.height * den <= ih * num /\ ih * num <= (pic.height + 1) * den
            /\ 0 <= pic.left /\ pic.left + pic.width <= slide_w
            /\ 0 <= pic.top /\ pic.top + pic.height <= slide_h
            /\ LET right == slide_w - pic.width - pic.left
               IN  right - pic.left \in {-1, 0, 1}
            /\ LET bottom == slide_h - pic.height - pic.top
               IN  bottom - pic.top \in {-1, 0, 1}
            /\ pic.width >= slide_w - 1 \/ pic.height >= slide_h - 1

\* A wide and a tall picture are fitted into a 4 : 3 slide and saved.
C20_Witness ==
    /\ pp_pc = "done"
    /\ pp_signals = <<"finished">>
    /\ slide_w = 12 /\ slide_h = 9
    /\ pp_doc = <<<<2, 1>>, <<1, 2>>>>
    /\ pp_file = <<pp_slides>>
    /\ pp_slides[1][1].width = 12 /\ pp_slides[1][1].height = 6
    /\ pp_slides[2][1].width = 4 /\ pp_slides[2][1].height = 9
    /\ pp_slides[2][1].left = 4 /\ pp_slides[2][1].top = 0

\* The slides of the saved presentation.
SavedSlides == pp_file[1]

\* C21: the presentation is saved only after the loop has added a slide for
\* every page; the saved presentation of an N-page source has exactly N
\* slides, slide j holds exactly one picture and that picture is the
\* rendering of page j; finished is emitted only after the save.
C21_SlidePerPage ==
    /\ \A k \in 1..pp_i :
           Len(pp_slides[k]) = 1 /\ pp_slides[k][1].page = k
    /\ pp_file # <<>> =>
           /\ pp_i = Len(pp_doc)
           /\ SavedSlides = pp_slides
           /\ Len(SavedSlides) = Len(pp_doc)
           /\ \A j \in 1..Len(SavedSlides) :
                  /\ Len(SavedSlides[j]) = 1
                  /\ SavedSlides[j][1].page = j
    /\ (\E n \in 1..Len(pp_signals) : pp_signals[n] = "finished") =>
           pp_file # <<>>

\* A source of two pages of different shapes is exported and saved.
C21_Witness ==
    /\ pp_pc = "done"
    /\ pp_signals = <<"finished">>
    /\ pp_doc = <<<<2, 1>>, <<1, 2>>>>
    /\ pp_file # <<>>
    /\ Len(SavedSlides) = 2
    /\ SavedSlides[1][1].page = 1
    /\ SavedSlides[2][1].page = 2

\* ------------------------------------------------------ compression claims

\* C22: the output of every compression shows the same pages in the same
\* order as its source, and compressing the output again gives a document
\* of the same page count.
C22_PagesPreserved ==
    /\ \A r \in 1..(Len(c_docs) - 1) : PageSeq(c_docs[r + 1]) = PageSeq(c_docs[r])
    /\ Len(c_docs) >= 3 => Len(c_docs[3].kids) = Len(c_docs[2].kids)

\* A source of two pages that show the same is compressed twice: the pages
\* have become one object and the output still has two pages.
C22_Witness ==
    /\ c_pc = "done"
    /\ c_run = 2
    /\ c_signals = <<"finished", "finished">>
    /\ Len(c_docs) = 3
    /\ PageSeq(c_docs[1]) = <<"a", "a">>
    /\ c_docs[1].objects[1].level = 0
    /\ c_docs[3].kids = <<1, 1>>
    /\ c_docs[3].objects[1].level = 9

\* ------------------------------------------------------- encryption claims

\* C24: the file written by an encryption with the password p holds the
\* pages of the source in their order; it opens with p and with no other
\* password, none included, and an opening with p gives the source's pages.
C24_SamePassword ==
    /\ e_out # <<>> =>
           /\ e_out[1].pages = e_source
           /\ \A q \in Passwords : Opens(e_out[1], q) <=> q = e_password
    /\ e_pc = "opened" =>
           /\ e_access # <<>> <=> e_tried = e_password
           /\ e_access # <<>> => e_access[1] = e_source

\* A source of two pages was encrypted with a blank as the password; the
\* output was opened with no password and refused.
C24_Witness ==
    /\ e_pc = "opened"
    /\ e_source = <<"a", "b">>
    /\ e_password = " "
    /\ e_signals = <<"finished">>
    /\ e_tried = ""
    /\ e_access = <<>>

====
